---------------------------- MODULE Spec2Model ----------------------------
(***************************************************************************)
(* A model of the Chrome DevTools protocol client                          *)
(* (src/src/clients/chrome_devtools.py: ChromeDevToolsClient) and of the   *)
(* browser process supervisor (src/src/utils/browser_guard.py:             *)
(* BrowserGuard).                                                          *)
(*                                                                         *)
(* Specifications:                                                         *)
(*   SpecReuse    the reuse predicate (_derive_host, _can_reuse_target)    *)
(*                applied to URLs given as character sequences             *)
(*   SpecResolve  target resolution (_create_target) applied to listings   *)
(*                and HTTP outcomes                                        *)
(*   Spec         the client: send, the receive loop, close, the browser   *)
(*   LiveSpec     Spec with the fairness of the asyncio scheduler          *)
(*   SpecGuard    the supervisor: ensure, shutdown, the process            *)
(***************************************************************************)
EXTENDS Integers, Sequences, FiniteSets, TLC

VARIABLES
    \* ---- reuse predicate harness (SpecReuse)
    ru_initial,     \* parts of the client's initial_url
    ru_target,      \* parts of a target URL from the listing
    ru_result,      \* [set, val]: whether _can_reuse_target has returned, and what
    \* ---- target resolution harness (SpecResolve)
    rs_in,          \* the listing and the HTTP statuses the endpoint answers with
    rs_out,         \* [set, res]: whether _create_target has finished, and how
    \* ---- the client (Spec, LiveSpec): fields of ChromeDevToolsClient
    msg_id,             \* self._msg_id
    session,            \* self.session: 0 (None) or the number of a connection
    target_id,          \* self.target_id: NoTarget (None) or an id
    reused_existing,    \* self._reused_existing
    lock,               \* self._lock: 0 (free) or the task holding it
    pending_requests,   \* self._pending_requests: the ids it has an entry for
    future,             \* id -> the asyncio.Future created for that id
    \* ---- the client's surroundings
    nconn,              \* connections opened so far
    ws,                 \* connection -> "open" | "closed" (the websocket)
    reader,             \* connection -> "running" | "done" (its _read_loop task)
    inbox,              \* connection -> frames received and not yet read
    unanswered,         \* the frames [id, conn] the browser has received and not answered
    answered,           \* task -> the outcome the browser put in the frame for
                        \*         the id the task awaits
    pc,                 \* task -> where its send call is
    phase,              \* task -> the method of the frame it awaits
    cur,                \* task -> the id of the frame it awaits
    did,                \* what the step just taken did: the end of a send call
                        \* (its outcome), a close() (what it closed), or neither
    \* ---- the supervisor (SpecGuard): fields of BrowserGuard, and the browser
    alive,              \* the debugging endpoint answers /json/version
    manage_process,     \* BrowserGuard.manage_process
    proc,               \* BrowserGuard._proc: 0 for None, else the process spawned
    started_here,       \* BrowserGuard._started_here
    launch_lock,        \* BrowserGuard._launch_lock: 0 when free, else its holder
    spawned,            \* how many browser processes were spawned so far
    running,            \* the spawned processes that have not exited
    gpc,                \* task -> where its ensure() call stands
    sd,                 \* where the shutdown() call stands, and the process it waits for
    gdid,               \* what the step just taken did to the browser or returned
    auto_close,         \* BrowserGuard.auto_close
    lc,                 \* task -> the lifecycle scope it runs: where it stands, the task of its
                        \* ensure(), and what that ensure() returned
    gh,                 \* history: whether the endpoint started unreachable, came
                        \* up only after a launch, and nothing failed, exited or
                        \* was shut down since; the ensure() calls that returned True
    \* ---- event dispatch (SpecEvents)
    event_handlers,     \* self._event_handlers: event name -> the handlers registered
    edid,               \* the event frame the receive loop just read, and the
                        \* handlers it invoked for it, in order
    hd,                 \* the handler the receive loop is awaiting, if any: the
                        \* connection of the loop, the event, and the task in which
                        \* the handler awaits a send() of its own (0: something else)
    \* ---- the drag gesture (SpecDrag)
    dr,                 \* a drag_mouse call: its arguments, where it stands, the
                        \* mouse events it has dispatched, and how it ended
    \* ---- the polling helpers (SpecPoll)
    pl,                 \* a wait_for_ready or wait_for_expression call: where it
                        \* stands, what each evaluate() of it ended in, how it ended
    \* ---- the screenshot (SpecShot)
    sh,                 \* a capture_screenshot call: its arguments, where it stands,
                        \* the commands it has sent, and how it ended
    \* ---- frames no request asked for (SpecFrames)
    current_note_comments,
                        \* note_service.current_note_comments, the module's list of
                        \* the comments gathered for "the current note"
    wk,                 \* workflow -> a collect_note_details call: where it stands,
                        \* the note it is at, the handlers registered on its client
                        \* (by the note they were made for), the handlers the last
                        \* event frame invoked, and the comments given to its last note
    fr                  \* the response frame the receive loop just read: its id,
                        \* and whether the pending table held that id; and whether
                        \* the loop has delivered a failure to a caller before

reuseVars == <<ru_initial, ru_target, ru_result>>
resolveVars == <<rs_in, rs_out>>
guardVars ==
    <<alive, manage_process, proc, started_here, launch_lock, spawned, running,
      gpc, sd, gdid, auto_close, lc, gh>>

eventVars == <<event_handlers, edid, hd>>
dragVars == <<dr>>
pollVars == <<pl>>
shotVars == <<sh>>
frameVars == <<fr>>
noteVars == <<current_note_comments, wk>>
helperVars == <<eventVars, dragVars, pollVars, shotVars, frameVars, noteVars>>

clientVars == <<msg_id, session, target_id, reused_existing, lock,
                pending_requests, future, nconn, ws, reader, inbox, unanswered, answered, pc, phase, cur, did>>

(***************************************************************************)
(* Strings are sequences of one-character strings, so that startswith,     *)
(* endswith, lower and urlparse are computed, character by character.      *)
(***************************************************************************)
S_https == <<"h", "t", "t", "p", "s", ":", "/", "/">>
S_about == <<"a", "b", "o", "u", "t", ":">>
S_none == << >>
AboutBlank == <<"a", "b", "o", "u", "t", ":", "b", "l", "a", "n", "k">>
H_example == <<"e", "x", "a", "m", "p", "l", "e", ".", "c", "o", "m">>
H_sub == <<"s", "u", "b", ".", "e", "x", "a", "m", "p", "l", "e", ".", "c", "o", "m">>
H_other == <<"o", "t", "h", "e", "r", ".", "c", "o", "m">>
H_notexample == <<"n", "o", "t", "e", "x", "a", "m", "p", "l", "e", ".", "c", "o", "m">>
H_upper == <<"E", "x", "a", "m", "p", "l", "e", ".", "C", "O", "M">>
H_com == <<"c", "o", "m">>
H_blank == <<"b", "l", "a", "n", "k">>
H_empty == << >>
P_none == << >>
P_p == <<"/", "p">>
P_q == <<"?", "q">>
Port_80 == <<":", "8", "0">>
U_user == <<"u", "@">>

UpperChars == <<"A", "B", "C", "D", "E", "F", "G", "H", "I", "J", "K", "L", "M",
                "N", "O", "P", "Q", "R", "S", "T", "U", "V", "W", "X", "Y", "Z">>
LowerChars == <<"a", "b", "c", "d", "e", "f", "g", "h", "i", "j", "k", "l", "m",
                "n", "o", "p", "q", "r", "s", "t", "u", "v", "w", "x", "y", "z">>
DigitChars == <<"0", "1", "2", "3", "4", "5", "6", "7", "8", "9">>

Range(s) == {s[i] : i \in DOMAIN s}

\* str.lower() on one character
LowerChar(c) ==
    IF \E i \in DOMAIN UpperChars : UpperChars[i] = c
    THEN LowerChars[CHOOSE i \in DOMAIN UpperChars : UpperChars[i] = c]
    ELSE c

\* str.lower()
Lower(s) == [i \in DOMAIN s |-> LowerChar(s[i])]

\* str.startswith(prefix)
StartsWith(s, prefix) ==
    /\ Len(prefix) <= Len(s)
    /\ SubSeq(s, 1, Len(prefix)) = prefix

\* str.endswith(suffix)
EndsWith(s, suffix) ==
    /\ Len(suffix) <= Len(s)
    /\ SubSeq(s, Len(s) - Len(suffix) + 1, Len(s)) = suffix

\* str.find(c, from): the first index >= from holding a character of cs, else 0
FindAny(s, cs, from) ==
    IF \E i \in from..Len(s) : s[i] \in cs
    THEN CHOOSE i \in from..Len(s) :
            /\ s[i] \in cs
            /\ \A j \in from..(i - 1) : s[j] \notin cs
    ELSE 0

\* str.rfind(c): the last index holding c, else 0
FindLast(s, c) ==
    IF \E i \in DOMAIN s : s[i] = c
    THEN CHOOSE i \in DOMAIN s : s[i] = c /\ \A j \in (i + 1)..Len(s) : s[j] # c
    ELSE 0

SchemeChars == Range(UpperChars) \cup Range(LowerChars) \cup Range(DigitChars)
                  \cup {"+", "-", "."}

(***************************************************************************)
(* urllib.parse.urlsplit, as far as hostname needs it: the scheme is the   *)
(* text before the first ":" when that text starts with a letter and holds *)
(* scheme characters only; the netloc is what follows a leading "//" up to *)
(* the first of "/", "?", "#".                                             *)
(***************************************************************************)
AfterScheme(url) ==
    LET i == FindAny(url, {":"}, 1)
    IN  IF /\ i > 1
           /\ url[1] \in Range(UpperChars) \cup Range(LowerChars)
           /\ \A j \in 1..(i - 1) : url[j] \in SchemeChars
        THEN SubSeq(url, i + 1, Len(url))
        ELSE url

Netloc(url) ==
    LET rest == AfterScheme(url)
    IN  IF StartsWith(rest, <<"/", "/">>)
        THEN LET d == FindAny(rest, {"/", "?", "#"}, 3)
             IN  IF d = 0 THEN SubSeq(rest, 3, Len(rest))
                          ELSE SubSeq(rest, 3, d - 1)
        ELSE << >>

(***************************************************************************)
(* urlparse(url).hostname: the netloc after its last "@", up to its first  *)
(* ":", lower-cased; None (here NoHost) when that is empty.                *)
(***************************************************************************)
NoHost == <<"<none>">>

Hostname(url) ==
    LET netloc == Netloc(url)
        at == FindLast(netloc, "@")
        hostinfo == SubSeq(netloc, at + 1, Len(netloc))
        colon == FindAny(hostinfo, {":"}, 1)
        name == IF colon = 0 THEN hostinfo ELSE SubSeq(hostinfo, 1, colon - 1)
    IN  IF name = << >> THEN NoHost ELSE Lower(name)

\* ChromeDevToolsClient._derive_host
DeriveHost(url) ==
    IF url = << >> \/ StartsWith(url, S_about)
    THEN NoHost
    ELSE Hostname(url)

\* A plausible slip: the suffix test without the separating dot.
CanReuseTargetNoDot(allowed_host, target_url) ==
    IF target_url = << >> THEN FALSE
    ELSE IF StartsWith(target_url, AboutBlank) THEN TRUE
    ELSE IF allowed_host = NoHost THEN FALSE
    ELSE LET host == Hostname(target_url)
         IN  IF host = NoHost THEN FALSE
             ELSE IF host = allowed_host THEN TRUE
             ELSE EndsWith(host, allowed_host)

\* ChromeDevToolsClient._can_reuse_target, with self._allowed_host given
CanReuseTarget(allowed_host, target_url) ==
    IF target_url = << >> THEN FALSE
    ELSE IF StartsWith(target_url, AboutBlank) THEN TRUE
    ELSE IF allowed_host = NoHost THEN FALSE
    ELSE LET host == Hostname(target_url)
         IN  IF host = NoHost THEN FALSE
             ELSE IF host = allowed_host THEN TRUE
             ELSE EndsWith(host, <<".">> \o allowed_host)

(***************************************************************************)
(* The harness: URLs are put together from parts, so that what the parser  *)
(* finds can be compared with the parts the URL was built from.            *)
(***************************************************************************)
BuildUrl(p) == p.scheme \o p.user \o p.host \o p.port \o p.path

TargetParts ==
    [scheme : {S_https, S_about, S_none},
     user : {<< >>, U_user},
     host : {H_example, H_sub, H_other, H_notexample, H_upper, H_com, H_blank, H_empty},
     port : {<< >>, Port_80},
     path : {P_none, P_p, P_q}]

InitialParts ==
    [scheme : {S_https, S_about, S_none},
     user : {<< >>},
     host : {H_example, H_upper, H_com, H_empty},
     port : {<< >>},
     path : {P_none, P_p}]

ReuseInit ==
    /\ ru_initial \in InitialParts
    /\ ru_target \in TargetParts
    /\ ru_result = [set |-> FALSE, val |-> FALSE]

\* __init__ derives the allowed host; the listing scan asks _can_reuse_target
ApplyReuse ==
    /\ ~ru_result.set
    /\ ru_result' = [set |-> TRUE,
                     val |-> CanReuseTarget(DeriveHost(BuildUrl(ru_initial)),
                                            BuildUrl(ru_target))]
    /\ UNCHANGED <<ru_initial, ru_target>>

ReuseNext == ApplyReuse

(***************************************************************************)
(* Target resolution: ChromeDevToolsClient._create_target.                 *)
(*                                                                         *)
(* A listing is a sequence of entries [type, webSocketDebuggerUrl, url,    *)
(* id]; an absent or empty webSocketDebuggerUrl is "", an absent id is     *)
(* NoId.  An HTTP exchange is given by its status, 0 standing for a        *)
(* transport failure (no response at all).                                 *)
(***************************************************************************)
MaxListing == 2
MethodNotAllowed == 405

NoId == "<absent>"
EntryIds == <<"T1", "T2", "T3", "T4">>
EntryWs == <<"ws-T1", "ws-T2", "ws-T3", "ws-T4">>
CreatedId == "N1"
CreatedWs == "ws-N1"

\* The client's initial_url in the resolution scenarios, and the URLs listed.
InitialUrl == S_https \o H_example \o P_p
ListedUrls == {S_https \o H_sub \o P_p, S_https \o H_other}

EntryShapes ==
    [type : {"page", "other"}, ws : BOOLEAN, url : ListedUrls, hasId : BOOLEAN]

MkEntry(shape, i) ==
    [type |-> shape.type,
     webSocketDebuggerUrl |-> IF shape.ws THEN EntryWs[i] ELSE "",
     url |-> shape.url,
     id |-> IF shape.hasId THEN EntryIds[i] ELSE NoId]

Listings ==
    UNION {{[i \in 1..n |-> MkEntry(f[i], i)] : f \in [1..n -> EntryShapes]}
           : n \in 0..MaxListing}

HttpStatuses == {0, 200, MethodNotAllowed, 500}

\* httpx.Response.raise_for_status raises for an error status
IsErrorStatus(st) == st >= 400

\* lines 53-54: entries the scan does not skip
IsCandidate(entry) == entry.type = "page" /\ entry.webSocketDebuggerUrl # ""

\* A plausible slip: the fallback candidate is overwritten by every later page.
RECURSIVE ScanListingKeepLast(_, _, _, _)
ScanListingKeepLast(allowed_host, targets, i, fallback) ==
    IF i > Len(targets) THEN [reuse |-> 0, fallback |-> fallback]
    ELSE IF ~IsCandidate(targets[i])
         THEN ScanListingKeepLast(allowed_host, targets, i + 1, fallback)
    ELSE IF CanReuseTarget(allowed_host, targets[i].url)
         THEN [reuse |-> i, fallback |-> i]
    ELSE ScanListingKeepLast(allowed_host, targets, i + 1, i)

\* A plausible slip: the scan does not return at the first reusable entry but
\* goes on, and the last reusable entry wins.
RECURSIVE ScanListingLastReusable(_, _, _, _)
ScanListingLastReusable(allowed_host, targets, i, fallback) ==
    IF i > Len(targets) THEN [reuse |-> 0, fallback |-> fallback]
    ELSE IF ~IsCandidate(targets[i])
         THEN ScanListingLastReusable(allowed_host, targets, i + 1, fallback)
    ELSE LET fb == IF fallback = 0 THEN i ELSE fallback
             rest == ScanListingLastReusable(allowed_host, targets, i + 1, fb)
         IN  IF CanReuseTarget(allowed_host, targets[i].url) /\ rest.reuse = 0
             THEN [reuse |-> i, fallback |-> fb]
             ELSE rest

(***************************************************************************)
(* The scan of the listing (the for loop): the index of the first entry    *)
(* that may be reused (0: none), and the index of the fallback candidate   *)
(* remembered on the way (0: none).                                        *)
(***************************************************************************)
RECURSIVE ScanListing(_, _, _, _)
ScanListing(allowed_host, targets, i, fallback) ==
    IF i > Len(targets) THEN [reuse |-> 0, fallback |-> fallback]
    ELSE IF ~IsCandidate(targets[i])
         THEN ScanListing(allowed_host, targets, i + 1, fallback)
    ELSE LET fb == IF fallback = 0 THEN i ELSE fallback
         IN  IF CanReuseTarget(allowed_host, targets[i].url)
             THEN [reuse |-> i, fallback |-> fb]
             ELSE ScanListing(allowed_host, targets, i + 1, fb)

Resolved(address, tid, requests) ==
    [ok |-> TRUE, ws |-> address, target_id |-> tid, error |-> "",
     requests |-> requests]

ResolveFailed(error, requests) ==
    [ok |-> FALSE, ws |-> "", target_id |-> "", error |-> error,
     requests |-> requests]

\* A plausible slip: without a fallback candidate the rejection is swallowed and
\* the address the create request would have given is returned.
CreateRejectedSwallowed(targets, fallback, status, requests) ==
    IF fallback # 0
    THEN Resolved(targets[fallback].webSocketDebuggerUrl,
                  IF targets[fallback].id = NoId THEN "existing"
                                                 ELSE targets[fallback].id,
                  requests)
    ELSE Resolved(CreatedWs, CreatedId, requests)

\* the except branch: creation ended with the error status `status`
CreateRejected(targets, fallback, status, requests) ==
    IF status = MethodNotAllowed /\ fallback # 0
    THEN Resolved(targets[fallback].webSocketDebuggerUrl,
                  IF targets[fallback].id = NoId THEN "existing"
                                                 ELSE targets[fallback].id,
                  requests)
    ELSE IF status = MethodNotAllowed
         THEN ResolveFailed("RuntimeError", requests)
         ELSE ResolveFailed("HTTPStatusError", requests)

\* A plausible slip: the POST is tried after any error status of the GET.
CreateNewPostOnAnyError(targets, fallback, getSt, postSt) ==
    IF getSt = 0 THEN ResolveFailed("TransportError", <<"LIST", "GET">>)
    ELSE IF IsErrorStatus(getSt) /\ postSt = 0
         THEN ResolveFailed("TransportError", <<"LIST", "GET", "POST">>)
    ELSE LET posted == IsErrorStatus(getSt)
             status == IF posted THEN postSt ELSE getSt
             requests == IF posted THEN <<"LIST", "GET", "POST">>
                                   ELSE <<"LIST", "GET">>
         IN  IF IsErrorStatus(status)
             THEN CreateRejected(targets, fallback, status, requests)
             ELSE Resolved(CreatedWs, CreatedId, requests)

\* step 2 of _create_target: GET /json/new, POST /json/new after a 405
CreateNew(targets, fallback, getSt, postSt) ==
    IF getSt = 0 THEN ResolveFailed("TransportError", <<"LIST", "GET">>)
    ELSE IF getSt = MethodNotAllowed /\ postSt = 0
         THEN ResolveFailed("TransportError", <<"LIST", "GET", "POST">>)
    ELSE LET posted == getSt = MethodNotAllowed
             status == IF posted THEN postSt ELSE getSt
             requests == IF posted THEN <<"LIST", "GET", "POST">>
                                   ELSE <<"LIST", "GET">>
         IN  IF IsErrorStatus(status)
             THEN CreateRejected(targets, fallback, status, requests)
             ELSE Resolved(CreatedWs, CreatedId, requests)

\* A plausible slip: raise_for_status is not called on the list response, and an
\* error answer is taken for an empty listing.
CreateTargetListUnchecked(allowed_host, targets, listSt, getSt, postSt) ==
    IF listSt = 0 THEN ResolveFailed("TransportError", <<"LIST">>)
    ELSE IF IsErrorStatus(listSt) THEN CreateNew(<< >>, 0, getSt, postSt)
    ELSE LET scan == ScanListing(allowed_host, targets, 1, 0)
         IN  IF scan.reuse # 0
             THEN Resolved(targets[scan.reuse].webSocketDebuggerUrl, "existing",
                           <<"LIST">>)
             ELSE CreateNew(targets, scan.fallback, getSt, postSt)

\* ChromeDevToolsClient._create_target
CreateTarget(allowed_host, targets, listSt, getSt, postSt) ==
    IF listSt = 0 THEN ResolveFailed("TransportError", <<"LIST">>)
    ELSE IF IsErrorStatus(listSt) THEN ResolveFailed("HTTPStatusError", <<"LIST">>)
    ELSE LET scan == ScanListing(allowed_host, targets, 1, 0)
         IN  IF scan.reuse # 0
             THEN Resolved(targets[scan.reuse].webSocketDebuggerUrl, "existing",
                           <<"LIST">>)
             ELSE CreateNew(targets, scan.fallback, getSt, postSt)

NoResolution == ResolveFailed("<unset>", << >>)

ResolveInit ==
    /\ rs_in \in [listing : Listings, list : {0, 200, 500},
                  get : HttpStatuses, post : HttpStatuses]
    /\ rs_out = [set |-> FALSE, res |-> NoResolution]

ApplyResolve ==
    /\ ~rs_out.set
    /\ rs_out' = [set |-> TRUE,
                  res |-> CreateTarget(DeriveHost(InitialUrl), rs_in.listing,
                                       rs_in.list, rs_in.get, rs_in.post)]
    /\ UNCHANGED rs_in

ResolveNext == ApplyResolve


(***************************************************************************)
(* The client: ChromeDevToolsClient.send, _ensure_connection_locked,       *)
(* _send_locked, _read_loop and close, with the tasks that call send, the  *)
(* browser that answers, and the channel that may fail.                    *)
(*                                                                         *)
(* A task's send call is followed from one suspension point to the next:   *)
(*   "idle"        not in send                                             *)
(*   "lock"        waiting for self._lock                                  *)
(*   "resolving"   in _create_target (the HTTP exchanges)                  *)
(*   "connecting"  in websockets.connect                                   *)
(*   "await"       in `await future` of _send_locked                       *)
(*                                                                         *)
(* A future is kept while the table or an awaiting task refers to it.      *)
(* What a call returns or raises, and what a close() does, is shown by     *)
(* `did` in the state the step leads to.                                   *)
(***************************************************************************)
MaxMsgId == 5
MaxConn == 2
MaxAbandoned == 1
Tasks == {1, 2}
Payloads == {"p"}

NoTarget == "<none>"
EnableMethods == <<"Page.enable", "Runtime.enable", "Network.enable">>
Command == "command"

PendingFuture == [st |-> "pending", val |-> ""]
CancelledFuture == [st |-> "cancelled", val |-> ""]
NoOutcome == [kind |-> "none", val |-> ""]
Raised(kind) == [kind |-> kind, val |-> ""]

\* what the browser may put in a response frame
Outcomes == [kind : {"result", "error"}, val : Payloads]

\* the step just taken neither ended a send call nor was a close()
Quiet ==
    [op |-> "none", task |-> 0, id |-> 0, method |-> "", outcome |-> NoOutcome,
     frame |-> NoOutcome, ws |-> FALSE, http |-> NoTarget]

\* the step ended the send call of task t, which last awaited `id`
Returned(t, outcome) ==
    [op |-> "return", task |-> t, id |-> cur[t], method |-> phase[t],
     outcome |-> outcome, frame |-> answered[t], ws |-> FALSE, http |-> NoTarget]

\* the step was a close(): whether it closed a websocket, the id it asked to close
Closed(closedWs, httpId) ==
    [op |-> "close", task |-> 0, id |-> 0, method |-> "", outcome |-> NoOutcome,
     frame |-> NoOutcome, ws |-> closedWs, http |-> httpId]

ClientInit ==
    /\ msg_id = 0
    /\ session = 0
    /\ target_id = NoTarget
    /\ reused_existing = FALSE
    /\ lock = 0
    /\ pending_requests = {}
    /\ future = << >>
    /\ nconn = 0
    /\ ws = << >>
    /\ reader = << >>
    /\ inbox = << >>
    /\ unanswered = {}
    /\ answered = [t \in Tasks |-> NoOutcome]
    /\ pc = [t \in Tasks |-> "idle"]
    /\ phase = [t \in Tasks |-> ""]
    /\ cur = [t \in Tasks |-> 0]
    /\ did = Quiet

\* the futures still referred to, by the table or by the tasks awaiting them
Collect(futures) ==
    LET awaited == {cur'[t] : t \in {u \in Tasks : pc'[u] = "await"}}
    IN  [n \in DOMAIN futures \cap (pending_requests' \cup awaited) |-> futures[n]]

\* a websocket is closed: the browser answers nothing more on it
ClosedOn(g) ==
    /\ ws' = IF g = 0 THEN ws ELSE [ws EXCEPT ![g] = "closed"]
    /\ unanswered' = {u \in unanswered : u.conn # g}

\* A plausible slip: the counter is read but not advanced.
AllocIdStuck(m) == IF m = 0 THEN 1 ELSE m

\* _send_locked: self._msg_id += 1; msg_id = self._msg_id
AllocId(m) == m + 1

\* the send call of task t ends: the lock is released (async with)
Finish(t, outcome) ==
    /\ pc' = [pc EXCEPT ![t] = "idle"]
    /\ did' = Returned(t, outcome)
    /\ cur' = [cur EXCEPT ![t] = 0]
    /\ phase' = [phase EXCEPT ![t] = ""]
    /\ answered' = [answered EXCEPT ![t] = NoOutcome]
    /\ lock' = 0

(***************************************************************************)
(* _send_locked up to its `await future`, run by task t on session `sess`  *)
(* (`fresh`: just opened by this call).  `assert self.session` fails on a  *)
(* closed client; session.send raises ConnectionClosed on a closed         *)
(* websocket, or when the connection is lost while the frame is written,   *)
(* and then the entry made for the id stays in the table.                  *)
(***************************************************************************)
SendLocked(t, method, sess, fresh) ==
    IF sess = 0
    THEN /\ Finish(t, Raised("AssertionError"))
         /\ UNCHANGED <<msg_id, pending_requests, ws, unanswered>>
         /\ future' = Collect(future)
    ELSE LET id == AllocId(msg_id)
             wsmap == IF fresh THEN (sess :> "open") @@ ws ELSE ws
         IN  /\ msg_id' = id
             /\ pending_requests' = pending_requests \cup {id}
             /\ \/ /\ wsmap[sess] = "open"
                   /\ ws' = wsmap
                   /\ unanswered' = unanswered \cup {[id |-> id, conn |-> sess]}
                   /\ pc' = [pc EXCEPT ![t] = "await"]
                   /\ cur' = [cur EXCEPT ![t] = id]
                   /\ phase' = [phase EXCEPT ![t] = method]
                   /\ answered' = [answered EXCEPT ![t] = NoOutcome]
                   /\ lock' = t
                   /\ did' = Quiet
                \/ /\ ws' = [wsmap EXCEPT ![sess] = "closed"]
                   /\ unanswered' = {u \in unanswered : u.conn # sess}
                   /\ Finish(t, Raised("ConnectionClosed"))
             /\ future' = Collect((id :> PendingFuture) @@ future)

\* a task calls send(method, params) and waits for the lock
Call(t) ==
    /\ pc[t] = "idle"
    /\ pc' = [pc EXCEPT ![t] = "lock"]
    /\ did' = Quiet
    /\ UNCHANGED <<msg_id, session, target_id, reused_existing, lock,
                   pending_requests, future, nconn, ws, reader, inbox,
                   unanswered, answered, phase, cur>>

\* _ensure_connection_locked, lines 115-118: the session is there and not closed
Connected == session # 0 /\ ws[session] # "closed"

(***************************************************************************)
(* send: the lock is taken; on a connected client the command is sent at   *)
(* once, otherwise target resolution starts.  The guards on msg_id and     *)
(* nconn bound the model.                                                  *)
(***************************************************************************)
Acquire(t) ==
    /\ pc[t] = "lock"
    /\ lock = 0
    /\ msg_id + (IF Connected THEN 1 ELSE Len(EnableMethods) + 1) <= MaxMsgId
    /\ IF Connected
       THEN /\ SendLocked(t, Command, session, FALSE)
            /\ UNCHANGED <<session, target_id, reused_existing, nconn, reader,
                           inbox>>
       ELSE /\ nconn < MaxConn
            /\ lock' = t
            /\ pc' = [pc EXCEPT ![t] = "resolving"]
            /\ did' = Quiet
            /\ UNCHANGED <<msg_id, session, target_id, reused_existing,
                           pending_requests, future, nconn, ws, reader, inbox,
                           unanswered, answered, phase, cur>>

\* what the debugging endpoint may answer while a client connects
ConnectScenarios ==
    [listing : {l \in Listings :
                   /\ Len(l) <= 1
                   /\ \A i \in DOMAIN l : IsCandidate(l[i]) /\ l[i].id # NoId},
     list : {200, 500}, get : {200, MethodNotAllowed}, post : {200, MethodNotAllowed}]

\* what _create_target may end with, for this client's initial_url
ResolveOutcomes ==
    {CreateTarget(DeriveHost(InitialUrl), sc.listing, sc.list, sc.get, sc.post) :
        sc \in ConnectScenarios}

\* _ensure_connection_locked, lines 120-122: _create_target and what it sets
Resolve(t) ==
    /\ pc[t] = "resolving"
    /\ \E r \in ResolveOutcomes :
             IF r.ok
             THEN /\ target_id' = r.target_id
                  /\ reused_existing' = (r.target_id = "existing")
                  /\ pc' = [pc EXCEPT ![t] = "connecting"]
                  /\ did' = Quiet
                  /\ UNCHANGED <<lock, answered, phase, cur>>
             ELSE /\ Finish(t, Raised(r.error))
                  /\ UNCHANGED <<target_id, reused_existing>>
    /\ UNCHANGED <<msg_id, session, pending_requests, future, nconn, ws, reader,
                   inbox, unanswered>>

(***************************************************************************)
(* _ensure_connection_locked, lines 123-129: the channel is opened, the    *)
(* receive loop is started on it, and Page.enable is sent; or              *)
(* websockets.connect raises.                                              *)
(***************************************************************************)
Connect(t) ==
    /\ pc[t] = "connecting"
    /\ \/ /\ Finish(t, Raised("ConnectError"))
          /\ UNCHANGED <<msg_id, session, pending_requests, future, nconn, ws,
                         reader, inbox, unanswered>>
       \/ LET g == nconn + 1
          IN  /\ nconn' = g
              /\ session' = g
              /\ reader' = (g :> "running") @@ reader
              /\ inbox' = (g :> {}) @@ inbox
              /\ SendLocked(t, EnableMethods[1], g, TRUE)
    /\ UNCHANGED <<target_id, reused_existing>>

\* A plausible slip: Runtime.enable is left out.
MethodAfterSkipping(method) ==
    IF method = EnableMethods[1] THEN EnableMethods[3] ELSE Command

\* the method _ensure_connection_locked and send issue after `method`
MethodAfter(method) ==
    IF method = EnableMethods[1] THEN EnableMethods[2]
    ELSE IF method = EnableMethods[2] THEN EnableMethods[3]
    ELSE Command

\* `return await future`: what the awaiting call gets from a future that is done
Awaited(f) ==
    IF f.st = "result" THEN [kind |-> "return", val |-> f.val]
    ELSE IF f.st = "exception" THEN [kind |-> "RuntimeError", val |-> f.val]
    ELSE Raised("CancelledError")

(***************************************************************************)
(* `await future` ends: a result of an enable command lets the call go on  *)
(* to the next frame, the result of the command is returned, an exception  *)
(* or a cancellation of the future is raised in the caller.                *)
(***************************************************************************)
Resume(t) ==
    /\ pc[t] = "await"
    /\ future[cur[t]].st # "pending"
    /\ LET f == future[cur[t]]
       IN  IF f.st = "result" /\ phase[t] # Command
           THEN SendLocked(t, MethodAfter(phase[t]), session, FALSE)
           ELSE /\ Finish(t, Awaited(f))
                /\ UNCHANGED <<msg_id, pending_requests, ws, unanswered>>
                /\ future' = Collect(future)
    /\ UNCHANGED <<session, target_id, reused_existing, nconn, reader, inbox>>

(***************************************************************************)
(* The task awaiting a future is cancelled by its own caller (a timeout    *)
(* around the call): asyncio cancels the awaited future and raises         *)
(* CancelledError in the task; the entry stays in the table.  The guard on  *)
(* the entries already abandoned bounds the model.                         *)
(***************************************************************************)
Cancel(t) ==
    /\ pc[t] = "await"
    /\ future[cur[t]].st = "pending"
    /\ Cardinality(pending_requests \ {cur[t]}) < MaxAbandoned
    /\ Finish(t, Raised("CancelledError"))
    /\ UNCHANGED <<msg_id, session, target_id, reused_existing,
                   pending_requests, nconn, ws, reader, inbox, unanswered>>
    /\ future' = Collect([future EXCEPT ![cur[t]] = CancelledFuture])

\* the browser answers a command it received on an open channel
Answer(u, o) ==
    /\ u \in unanswered
    /\ unanswered' = unanswered \ {u}
    /\ inbox' = [inbox EXCEPT ![u.conn] =
                    @ \cup {[id |-> u.id, kind |-> o.kind, val |-> o.val]}]
    /\ answered' = [t \in Tasks |->
                      IF pc[t] = "await" /\ cur[t] = u.id THEN o ELSE answered[t]]
    /\ did' = Quiet
    /\ UNCHANGED <<msg_id, session, target_id, reused_existing, lock,
                   pending_requests, future, nconn, ws, reader, pc, phase, cur>>

\* the channel is lost: the browser closes it, or the connection fails
Drop(g) ==
    /\ ws[g] = "open"
    /\ ClosedOn(g)
    /\ did' = Quiet
    /\ UNCHANGED <<msg_id, session, target_id, reused_existing, lock,
                   pending_requests, future, nconn, reader, inbox, answered, pc,
                   phase, cur>>

\* A plausible slip: the frame is delivered to the oldest entry, whatever its id.
SlotOfOldest(frame_id, table) ==
    IF table = {} THEN {}
    ELSE {CHOOSE n \in table : \A m \in table : n <= m}

\* A plausible slip: a frame with an unknown id is taken for the answer to the
\* only request in flight.
SlotOfSole(frame_id, table) ==
    IF frame_id \in table THEN {frame_id}
    ELSE IF Cardinality(table) = 1 THEN table ELSE {}

\* _read_loop, lines 139-144: the entry a response frame is for, if any
SlotOf(frame_id, table) == IF frame_id \in table THEN {frame_id} ELSE {}

\* A plausible slip: the error member of the frame is not looked at.
DeliveredIgnoringError(frame) == [st |-> "result", val |-> frame.val]

\* _read_loop, lines 146-149: set_exception(RuntimeError(error)) or set_result
Delivered(frame) ==
    IF frame.kind = "error"
    THEN [st |-> "exception", val |-> frame.val]
    ELSE [st |-> "result", val |-> frame.val]

\* A plausible slip: the failure of a command is raised in the loop itself.
LoopAfterRaisingFailure(frame) == IF frame.kind = "error" THEN "done" ELSE "running"

\* _read_loop, lines 136 and 145-149: set_exception and set_result raise nothing, the
\* `async for` goes on to the next frame
LoopAfter(frame) == "running"

\* _read_loop, lines 136-149: one response frame is read and delivered
ReadFrame(g, frame) ==
    /\ reader[g] = "running"
    /\ frame \in inbox[g]
    /\ inbox' = [inbox EXCEPT ![g] = @ \ {frame}]
    /\ reader' = [reader EXCEPT ![g] = LoopAfter(frame)]
    /\ did' = Quiet
    /\ UNCHANGED <<msg_id, session, target_id, reused_existing, lock, nconn, ws,
                   unanswered, answered, pc, phase, cur>>
    /\ LET slot == SlotOf(frame.id, pending_requests)
       IN  /\ pending_requests' = pending_requests \ slot
           /\ future' = Collect([n \in DOMAIN future |->
                                   IF n \in slot /\ future[n].st = "pending"
                                   THEN Delivered(frame) ELSE future[n]])

\* A plausible slip: the table is cleared without cancelling what it holds.
CancelNone(futures, table) == futures

\* _read_loop, lines 165-167: every future of the table that is not done is cancelled
CancelAll(futures, table) ==
    [n \in DOMAIN futures |->
        IF n \in table /\ futures[n].st = "pending"
        THEN CancelledFuture ELSE futures[n]]

(***************************************************************************)
(* _read_loop, lines 161-168: the iteration over the websocket ends once   *)
(* it is closed and the frames already received are read; the finally      *)
(* clause cancels and clears the table.                                    *)
(***************************************************************************)
ReadEnd(g) ==
    /\ reader[g] = "running"
    /\ ws[g] = "closed"
    /\ inbox[g] = {}
    /\ reader' = [reader EXCEPT ![g] = "done"]
    /\ pending_requests' = {}
    /\ did' = Quiet
    /\ UNCHANGED <<msg_id, session, target_id, reused_existing, lock, nconn, ws,
                   inbox, unanswered, answered, pc, phase, cur>>
    /\ future' = Collect(CancelAll(future, pending_requests))

\* A plausible slip: close() keeps the target id.
TargetIdAfterCloseKept == target_id

\* close(), line 358
TargetIdAfterClose == NoTarget

(***************************************************************************)
(* close(): the websocket of the session, if any, is closed and the        *)
(* session forgotten; the HTTP close-by-id request is made when there is   *)
(* a target id and _reused_existing is false; both are reset.              *)
(***************************************************************************)
Close ==
    /\ ClosedOn(session)
    /\ session' = 0
    /\ did' = Closed(session # 0,
                     IF target_id # NoTarget /\ ~reused_existing
                     THEN target_id ELSE NoTarget)
    /\ target_id' = TargetIdAfterClose
    /\ reused_existing' = FALSE
    /\ UNCHANGED <<msg_id, lock, pending_requests, future, nconn, reader, inbox,
                   answered, pc, phase, cur>>

ReaderStep(g) ==
    \/ \E frame \in inbox[g] : ReadFrame(g, frame)
    \/ ReadEnd(g)

(***************************************************************************)
(* The supervisor: BrowserGuard.ensure, _wait_until_ready, _launch and     *)
(* shutdown, with the tasks that call ensure, one caller of shutdown, the  *)
(* endpoint that comes and goes and the processes that may exit.           *)
(*                                                                         *)
(* An ensure call is followed from one suspension point to the next:       *)
(*   "idle"      not in ensure                                             *)
(*   "lock"      waiting for self._launch_lock                             *)
(*   "probe"     in the first `await self._devtools_alive()`               *)
(*   "spawning"  in `await asyncio.create_subprocess_exec(...)`            *)
(*   "waiting"   in the probe of _wait_until_ready                         *)
(*   "sleeping"  in the sleep of _wait_until_ready                         *)
(***************************************************************************)
MaxSpawn == 2
GuardTasks == {1, 2}

\* the step just taken returned from no call and touched neither profile nor process
GuardQuiet ==
    [op |-> "none", task |-> 0, ret |-> "", cleaned |-> FALSE, spawned |-> FALSE,
     how |-> "", signals |-> << >>, wait |-> ""]

\* the step ended the ensure call of task t, with a value or an exception
EnsureReturned(t, ret) ==
    [op |-> "ensure", task |-> t, ret |-> ret, cleaned |-> FALSE, spawned |-> FALSE,
     how |-> "", signals |-> << >>, wait |-> ""]

\* the task runs no lifecycle scope
NoScope == [at |-> "out", task |-> 0, started |-> FALSE]

\* no lifecycle scope is open
NoScopes == [t \in GuardTasks |-> NoScope]

\* no shutdown() is running; scope is the task whose scope called it, or 0
NoShutdown == [at |-> "idle", of |-> 0, scope |-> 0]

\* __init__, lines 41-47; the endpoint may or may not be reachable at the start
GuardInit ==
    /\ alive \in BOOLEAN
    /\ manage_process \in BOOLEAN
    /\ auto_close \in BOOLEAN
    /\ proc = 0
    /\ started_here = FALSE
    /\ launch_lock = 0
    /\ spawned = 0
    /\ running = {}
    /\ gpc = [t \in GuardTasks |-> "idle"]
    /\ sd = NoShutdown
    /\ lc = NoScopes
    /\ gh = [steady |-> ~alive, trues |-> 0]
    /\ gdid = GuardQuiet

\* a task calls ensure() and waits for the launch lock
EnsureCall(t) ==
    /\ gpc[t] = "idle"
    /\ gpc' = [gpc EXCEPT ![t] = "lock"]
    /\ gdid' = GuardQuiet
    /\ UNCHANGED <<alive, manage_process, auto_close, proc, started_here,
                   launch_lock, spawned, running, sd, lc, gh>>

\* A plausible slip: ensure does not wait for the launch lock.
LaunchLockIgnored(holder) == TRUE

\* asyncio.Lock: `async with self._launch_lock` goes on when no task holds the lock
LaunchLockFree(holder) == holder = 0

\* ensure, lines 141-142: the lock is taken and the probe is sent
EnsureAcquire(t) ==
    /\ gpc[t] = "lock"
    /\ LaunchLockFree(launch_lock)
    /\ launch_lock' = t
    /\ gpc' = [gpc EXCEPT ![t] = "probe"]
    /\ gdid' = GuardQuiet
    /\ UNCHANGED <<alive, manage_process, auto_close, proc, started_here, spawned,
                   running, sd, lc, gh>>

\* A plausible slip: the result of the probe is not used.
DevtoolsAliveIgnored(reachable) == FALSE

\* _devtools_alive: True when GET /json/version is answered with a success status
DevtoolsAlive(reachable) == reachable

(***************************************************************************)
(* The ensure call of task t ends: the launch lock is released (async      *)
(* with).  When the call was the entry of a lifecycle scope, its value is  *)
(* what the scope yields, and its exception leaves the scope unentered.    *)
(***************************************************************************)
EnsureFinish(t, ret) ==
    /\ gpc' = [gpc EXCEPT ![t] = "idle"]
    /\ launch_lock' = 0
    /\ gdid' = EnsureReturned(t, ret)
    /\ lc' = IF lc[t].at = "entering"
             THEN [lc EXCEPT ![t] =
                     IF ret \in {"True", "False"}
                     THEN [at |-> "inside", task |-> t, started |-> (ret = "True")]
                     ELSE NoScope]
             ELSE lc
    /\ gh' = [steady |-> gh.steady /\ ret \in {"True", "False"},
              trues |-> IF ret = "True" THEN gh.trues + 1 ELSE gh.trues]

\* A plausible slip: the launch is tried whatever manage_process says.
MayLaunchAlways(manage) == TRUE

\* ensure, line 144: `if not self.manage_process: raise`
MayLaunch(manage) == manage

(***************************************************************************)
(* ensure, lines 142-150: the probe is answered.  Reachable: return False. *)
(* Not reachable and not managing the process: RuntimeError.  Otherwise    *)
(* _launch starts: _cleanup_profile runs and the process is being spawned. *)
(* The guard on spawned bounds the model.                                  *)
(***************************************************************************)
EnsureProbe(t) ==
    /\ gpc[t] = "probe"
    /\ IF DevtoolsAlive(alive)
       THEN EnsureFinish(t, "False")
       ELSE IF ~MayLaunch(manage_process)
       THEN EnsureFinish(t, "RuntimeError")
       ELSE /\ spawned < MaxSpawn
            /\ gpc' = [gpc EXCEPT ![t] = "spawning"]
            /\ gdid' = [GuardQuiet EXCEPT !.op = "launch", !.task = t,
                                          !.cleaned = TRUE]
            /\ UNCHANGED <<launch_lock, lc, gh>>
    /\ UNCHANGED <<alive, manage_process, auto_close, proc, started_here, spawned,
                   running, sd>>

(***************************************************************************)
(* _launch, lines 107-113, and the start of _wait_until_ready: the process *)
(* is spawned, the handle and _started_here are set and the first probe of *)
(* the wait is sent; or the spawn raises (no such binary) and ensure ends  *)
(* with that error.                                                        *)
(***************************************************************************)
EnsureSpawn(t) ==
    /\ gpc[t] = "spawning"
    /\ \/ /\ spawned' = spawned + 1
          /\ proc' = spawned + 1
          /\ running' = running \cup {spawned + 1}
          /\ started_here' = TRUE
          /\ gpc' = [gpc EXCEPT ![t] = "waiting"]
          /\ gdid' = [GuardQuiet EXCEPT !.op = "launch", !.task = t,
                                        !.spawned = TRUE]
          /\ UNCHANGED <<launch_lock, lc, gh>>
       \/ /\ EnsureFinish(t, "OSError")
          /\ UNCHANGED <<proc, started_here, spawned, running>>
    /\ UNCHANGED <<alive, manage_process, auto_close, sd>>

\* A plausible slip: the exit of the process is not looked at.
ProcessGoneIgnored(handle, live) == FALSE

\* _wait_until_ready, line 71: `self._proc and self._proc.returncode is not None`
ProcessGone(handle, live) == handle # 0 /\ handle \notin live

(***************************************************************************)
(* _wait_until_ready, lines 69-73: a probe is answered.  Reachable: ensure *)
(* returns True.  Otherwise, the handle being there and its process having *)
(* exited: RuntimeError.  Otherwise the task sleeps.                       *)
(***************************************************************************)
EnsureWait(t) ==
    /\ gpc[t] = "waiting"
    /\ IF DevtoolsAlive(alive)
       THEN EnsureFinish(t, "True")
       ELSE IF ProcessGone(proc, running)
       THEN EnsureFinish(t, "RuntimeError")
       ELSE /\ gpc' = [gpc EXCEPT ![t] = "sleeping"]
            /\ gdid' = GuardQuiet
            /\ UNCHANGED <<launch_lock, lc, gh>>
    /\ UNCHANGED <<alive, manage_process, auto_close, proc, started_here, spawned,
                   running, sd>>

\* _wait_until_ready, lines 68 and 74: after the sleep, the next probe or the timeout
EnsureWake(t) ==
    /\ gpc[t] = "sleeping"
    /\ \/ /\ gpc' = [gpc EXCEPT ![t] = "waiting"]
          /\ gdid' = GuardQuiet
          /\ UNCHANGED <<launch_lock, lc, gh>>
       \/ EnsureFinish(t, "RuntimeError")
    /\ UNCHANGED <<alive, manage_process, auto_close, proc, started_here, spawned,
                   running, sd>>

\* A plausible slip: shutdown leaves the handle as it is.
HandleAfterShutdownKept == proc

\* shutdown, line 169: self._proc = None
HandleAfterShutdown == 0

(***************************************************************************)
(* shutdown, lines 155-170, up to its first suspension or its end; `scope` *)
(* tells whether a lifecycle scope calls it, `how` how that scope is left. *)
(* Without a handle it returns at once.  Otherwise the process of the      *)
(* handle is asked to terminate and awaited; or, the process being gone    *)
(* already, terminate and then kill raise, the error is logged and the     *)
(* finally clause resets the handle and _started_here.                     *)
(***************************************************************************)
\* the scopes once the scope of task `scope`, if any, is left
ScopeLeft(scope) == IF scope # 0 THEN [lc EXCEPT ![scope] = NoScope] ELSE lc

ShutdownBegin(scope, how) ==
    /\ sd.at = "idle"
    /\ IF proc = 0
       THEN /\ gdid' = [GuardQuiet EXCEPT !.op = "shutdown", !.how = how]
            /\ lc' = ScopeLeft(scope)
            /\ UNCHANGED <<sd, proc, started_here, gh>>
       ELSE \/ /\ sd' = [at |-> "stopping", of |-> proc, scope |-> scope]
               /\ gdid' = [GuardQuiet EXCEPT !.op = IF scope # 0 THEN "exit" ELSE "none",
                                             !.how = how,
                                             !.signals = <<"terminate">>]
               /\ lc' = IF scope # 0 THEN [lc EXCEPT ![scope].at = "closing"] ELSE lc
               /\ gh' = [gh EXCEPT !.steady = FALSE]
               /\ UNCHANGED <<proc, started_here>>
            \/ /\ proc \notin running
               /\ proc' = HandleAfterShutdown
               /\ started_here' = FALSE
               /\ gdid' = [GuardQuiet EXCEPT !.op = "shutdown", !.how = how,
                                             !.signals = <<"terminate", "kill">>]
               /\ lc' = ScopeLeft(scope)
               /\ UNCHANGED <<sd, gh>>
    /\ UNCHANGED <<alive, manage_process, auto_close, launch_lock, spawned,
                   running, gpc>>

\* shutdown() is called from outside a lifecycle scope
ShutdownStart == ShutdownBegin(0, "")

(***************************************************************************)
(* shutdown, lines 160-170: the awaited process has exited; or the wait    *)
(* timed out and the process the handle now refers to is sent a kill and   *)
(* awaited (an error is only logged); or the caller is cancelled           *)
(* while it waits and the cancellation goes on to it.  In every case the   *)
(* finally clause resets the handle and _started_here.                     *)
(***************************************************************************)
\* how `await asyncio.wait_for(self._proc.wait(), timeout=3)`, line 160, ends
WaitOutcomes == {"exited", "timeout", "cancelled"}

\* A plausible slip: the kill is sent whenever the wait is over.
KillAfterWaitAlways(wait) == wait # "cancelled"

\* shutdown, lines 161-164: the except clause runs when the wait timed out
KillAfterWait(wait) == wait = "timeout"

ShutdownFinish(wait) ==
    /\ sd.at = "stopping"
    /\ \/ /\ wait = "exited"
          /\ running' = running \ {sd.of}
          /\ gdid' = [GuardQuiet EXCEPT
                        !.op = "shutdown", !.wait = wait,
                        !.signals = IF KillAfterWait(wait) THEN <<"kill">> ELSE << >>]
       \/ /\ wait = "timeout"
          /\ running' = running \ {proc}
          /\ gdid' = [GuardQuiet EXCEPT
                        !.op = "shutdown", !.wait = wait,
                        !.signals = IF KillAfterWait(wait) THEN <<"kill">> ELSE << >>]
       \/ /\ wait = "cancelled"
          /\ running' = running
          /\ gdid' = [GuardQuiet EXCEPT !.op = "shutdown", !.wait = wait,
                                        !.ret = "CancelledError"]
    /\ proc' = HandleAfterShutdown
    /\ started_here' = FALSE
    /\ sd' = NoShutdown
    /\ lc' = ScopeLeft(sd.scope)
    /\ UNCHANGED <<alive, manage_process, auto_close, launch_lock, spawned, gpc,
                   gh>>

\* lifecycle, line 174: a scope is entered; its ensure() waits for the launch lock
LifecycleEnter(t) ==
    /\ lc[t].at = "out"
    /\ gpc[t] = "idle"
    /\ gpc' = [gpc EXCEPT ![t] = "lock"]
    /\ lc' = [lc EXCEPT ![t] = [at |-> "entering", task |-> t, started |-> FALSE]]
    /\ gdid' = GuardQuiet
    /\ UNCHANGED <<alive, manage_process, auto_close, proc, started_here,
                   launch_lock, spawned, running, sd, gh>>

\* A plausible slip: the scope shuts the browser down whether or not it launched it.
ShutdownOnExitAlways(started, auto) == auto

\* lifecycle, line 178: `if started and self.auto_close`
ShutdownOnExit(started, auto) == started /\ auto

(***************************************************************************)
(* lifecycle, lines 175-179: the wrapped workload ends, by returning or by *)
(* raising; the finally clause calls shutdown() when this scope's ensure() *)
(* returned True and auto_close is set, and does nothing otherwise.        *)
(***************************************************************************)
LifecycleExit(t, how) ==
    /\ lc[t].at = "inside"
    /\ IF ShutdownOnExit(lc[t].started, auto_close)
       THEN ShutdownBegin(t, how)
       ELSE /\ lc' = ScopeLeft(t)
            /\ gdid' = [GuardQuiet EXCEPT !.op = "exit", !.how = how]
            /\ UNCHANGED <<alive, manage_process, auto_close, proc, started_here,
                           launch_lock, spawned, running, gpc, sd, gh>>

\* the endpoint starts or stops answering (a browser came up, or went away)
EndpointChange ==
    /\ alive' = ~alive
    /\ gh' = [gh EXCEPT !.steady = gh.steady /\ ~alive /\ spawned > 0]
    /\ gdid' = GuardQuiet
    /\ UNCHANGED <<manage_process, auto_close, proc, started_here, launch_lock,
                   spawned, running, gpc, sd, lc>>

\* a spawned browser process exits by itself
ProcessExit(k) ==
    /\ k \in running
    /\ running' = running \ {k}
    /\ gh' = [gh EXCEPT !.steady = FALSE]
    /\ gdid' = GuardQuiet
    /\ UNCHANGED <<alive, manage_process, auto_close, proc, started_here,
                   launch_lock, spawned, gpc, sd, lc>>

(***************************************************************************)
(* Event dispatch: ChromeDevToolsClient.on and the event branch of         *)
(* _read_loop.  A handler is code of the caller: each invocation either    *)
(* returns or raises an Exception.                                         *)
(***************************************************************************)
MaxHandlers == 2
Events == {"Network.responseReceived", "Network.loadingFinished"}
Handlers == {"on_response", "on_loading_finished"}

\* no event frame was read in the step just taken
EvQuiet == [event |-> "", ran |-> << >>]

\* __init__, line 33: no handler is registered
\* the receive loop awaits no handler
NoHandling == [conn |-> 0, event |-> "", task |-> 0]

EventsIdle ==
    /\ event_handlers = [e \in Events |-> << >>]
    /\ edid = EvQuiet
    /\ hd = NoHandling

\* how many handlers are registered, over all events
RECURSIVE Registered(_, _)
Registered(registry, events) ==
    IF events = {} THEN 0
    ELSE LET e == CHOOSE x \in events : TRUE
         IN  Len(registry[e]) + Registered(registry, events \ {e})

\* on, lines 170-174: the handler is appended to the list of its event; the guard
\* bounds the model
On(e, h) ==
    /\ Registered(event_handlers, Events) < MaxHandlers
    /\ event_handlers' = [event_handlers EXCEPT ![e] = Append(@, h)]
    /\ edid' = EvQuiet
    /\ UNCHANGED <<clientVars, hd>>

\* A plausible slip: one try around the whole loop, so that a raise ends the loop.
RECURSIVE InvokeUntilRaise(_, _)
InvokeUntilRaise(hs, raising) ==
    IF hs = << >> THEN << >>
    ELSE LET n == Len(raising) - Len(hs) + 1
             one == [handler |-> Head(hs), raised |-> raising[n]]
         IN  IF raising[n] THEN <<one>>
             ELSE <<one>> \o InvokeUntilRaise(Tail(hs), raising)

(***************************************************************************)
(* _read_loop, lines 154-158: each handler of the list is awaited in turn  *)
(* inside its own try; an Exception it raises is logged and the loop goes  *)
(* on to the next handler.  raising[i] tells whether the i-th invocation   *)
(* raises.                                                                 *)
(***************************************************************************)
InvokeAll(hs, raising) ==
    [i \in 1..Len(hs) |-> [handler |-> hs[i], raised |-> raising[i]]]

(***************************************************************************)
(* _read_loop, lines 136-160, for a frame without an id that carries the   *)
(* event name e: the handlers registered for e are invoked; the pending    *)
(* table, the futures and the loop itself are left as they are.            *)
(***************************************************************************)
ReadEvent(g, e) ==
    /\ reader[g] = "running"
    /\ \E raising \in [1..Len(event_handlers[e]) -> BOOLEAN] :
          edid' = [event |-> e, ran |-> InvokeAll(event_handlers[e], raising)]
    /\ did' = Quiet
    /\ UNCHANGED <<msg_id, session, target_id, reused_existing, lock,
                   pending_requests, future, nconn, ws, reader, inbox,
                   unanswered, answered, pc, phase, cur, event_handlers, hd>>

(***************************************************************************)
(* _read_loop, line 156: `await handler(data)`.  A handler of the event    *)
(* does not finish at once: it awaits a send() it makes on this client,    *)
(* as task t, or something else (t = 0).  The loop is suspended in that    *)
(* await and reads no frame until the handler is done.                     *)
(***************************************************************************)
ReadEventAwait(g, e, t) ==
    /\ reader[g] = "running"
    /\ event_handlers[e] # << >>
    /\ t # 0 => pc[t] = "idle"
    /\ reader' = [reader EXCEPT ![g] = "handling"]
    /\ hd' = [conn |-> g, event |-> e, task |-> t]
    /\ pc' = IF t = 0 THEN pc ELSE [pc EXCEPT ![t] = "lock"]
    /\ edid' = EvQuiet
    /\ did' = Quiet
    /\ UNCHANGED <<msg_id, session, target_id, reused_existing, lock,
                   pending_requests, future, nconn, ws, inbox, unanswered,
                   answered, phase, cur, event_handlers>>

\* lines 154-158: what the handler awaited is over (its send() has ended); it and the
\* handlers after it finish, and the loop is back at the websocket
HandlerDone ==
    /\ hd # NoHandling
    /\ hd.task # 0 => pc[hd.task] = "idle"
    /\ reader' = [reader EXCEPT ![hd.conn] = "running"]
    /\ hd' = NoHandling
    /\ edid' = EvQuiet
    /\ did' = Quiet
    /\ UNCHANGED <<msg_id, session, target_id, reused_existing, lock,
                   pending_requests, future, nconn, ws, inbox, unanswered,
                   answered, pc, phase, cur, event_handlers>>

(***************************************************************************)
(* connect, lines 120-131, and send: a client whose first send() connected *)
(* to a created target, sent the three enable commands and now awaits the  *)
(* answer to its own command.                                              *)
(***************************************************************************)
ConnectedInit ==
    /\ msg_id = Len(EnableMethods) + 1
    /\ session = 1
    /\ target_id = "T1"
    /\ reused_existing = FALSE
    /\ lock = 1
    /\ pending_requests = {msg_id}
    /\ future = (msg_id :> PendingFuture)
    /\ nconn = 1
    /\ ws = <<"open">>
    /\ reader = <<"running">>
    /\ inbox = <<{}>>
    /\ unanswered = {[id |-> msg_id, conn |-> 1]}
    /\ answered = [t \in Tasks |-> NoOutcome]
    /\ pc = [t \in Tasks |-> IF t = 1 THEN "await" ELSE "idle"]
    /\ phase = [t \in Tasks |-> IF t = 1 THEN Command ELSE ""]
    /\ cur = [t \in Tasks |-> IF t = 1 THEN msg_id ELSE 0]
    /\ did = Quiet

(***************************************************************************)
(* drag_mouse.  Positions are floats in the code; here a position is kept  *)
(* as an integer multiple of 1/steps^3, in which t*t*(3 - 2*t) for         *)
(* t = step/steps is exact: steps^3 * smooth = step^2 * (3*steps - 2*step).*)
(* Each dispatch_mouse_event is one send(), which may raise.               *)
(***************************************************************************)
MaxSteps == 4
MaxCoord == 1
Points == (0..MaxCoord) \X (0..MaxCoord)

NoDrag == [at |-> "idle", steps |-> 0, n |-> 0, start |-> <<0, 0>>,
           end |-> <<0, 0>>, step |-> 0, events |-> << >>, ret |-> ""]

DragIdle == dr = NoDrag

\* A plausible slip: the step count is used as it was given.
ClampStepsMissing(steps) == steps

\* drag_mouse, line 282: steps = max(steps, 2)
ClampSteps(steps) == IF steps > 2 THEN steps ELSE 2

\* the unit of the scaled positions of a drag in n steps
Scale(n) == n * n * n

\* lines 288-290: steps^3 * smooth, for t = step/steps
Smooth(step, n) == step * step * (3 * n - 2 * step)

\* lines 291-292: random.uniform(-0.6, 0.6) and (-0.4, 0.4), scaled; the extremes
\* that are whole multiples of the unit, and no jitter
JitterX(n) == {-((6 * Scale(n)) \div 10), 0, (6 * Scale(n)) \div 10}
JitterY(n) == {-((4 * Scale(n)) \div 10), (4 * Scale(n)) \div 10}

\* dispatch_mouse_event, lines 260-271: the parameters of Input.dispatchMouseEvent;
\* eased is the position before the jitter was added
MouseEvent(type, x, y, button, buttons, eased) ==
    [type |-> type, x |-> x, y |-> y, button |-> button, buttons |-> buttons,
     eased |-> eased]

\* lines 282-284
DragCall(start, end, steps) ==
    /\ dr.at = "idle"
    /\ dr' = [NoDrag EXCEPT !.at = "hover", !.steps = steps, !.n = ClampSteps(steps),
                            !.start = start, !.end = end]

\* a dispatch of the gesture succeeded: the event is out, the gesture goes on
Dispatched(event, next) ==
    dr' = [dr EXCEPT !.events = Append(@, event), !.at = next]

\* line 285: the pointer is moved to the start point, no button held
DragHover ==
    /\ dr.at = "hover"
    /\ Dispatched(MouseEvent("mouseMoved", dr.start[1] * Scale(dr.n),
                             dr.start[2] * Scale(dr.n), "none", 0,
                             <<dr.start[1] * Scale(dr.n), dr.start[2] * Scale(dr.n)>>),
                  "press")

\* line 286, and the first value of range(1, steps)
DragPress ==
    /\ dr.at = "press"
    /\ dr' = [dr EXCEPT
                !.events = Append(@, MouseEvent("mousePressed",
                              dr.start[1] * Scale(dr.n), dr.start[2] * Scale(dr.n),
                              "left", 1,
                              <<dr.start[1] * Scale(dr.n), dr.start[2] * Scale(dr.n)>>)),
                !.at = "move", !.step = 1]

\* lines 288-296: one round of the loop, the sleep included
DragStep ==
    /\ dr.at = "move"
    /\ dr.step < dr.n
    /\ \E jx \in JitterX(dr.n), jy \in JitterY(dr.n) :
          LET ex == dr.start[1] * Scale(dr.n)
                       + (dr.end[1] - dr.start[1]) * Smooth(dr.step, dr.n)
              ey == dr.start[2] * Scale(dr.n)
                       + (dr.end[2] - dr.start[2]) * Smooth(dr.step, dr.n)
          IN  dr' = [dr EXCEPT
                       !.events = Append(@, MouseEvent("mouseMoved", ex + jx, ey + jy,
                                                       "none", 1, <<ex, ey>>)),
                       !.step = @ + 1]

\* line 298: the range is exhausted; the pointer is moved to the end point
DragArrive ==
    /\ dr.at = "move"
    /\ dr.step >= dr.n
    /\ Dispatched(MouseEvent("mouseMoved", dr.end[1] * Scale(dr.n),
                             dr.end[2] * Scale(dr.n), "none", 1,
                             <<dr.end[1] * Scale(dr.n), dr.end[2] * Scale(dr.n)>>),
                  "release")

\* line 299: the button is released at the end point, and drag_mouse returns
DragRelease ==
    /\ dr.at = "release"
    /\ dr' = [dr EXCEPT
                !.events = Append(@, MouseEvent("mouseReleased",
                              dr.end[1] * Scale(dr.n), dr.end[2] * Scale(dr.n),
                              "left", 0,
                              <<dr.end[1] * Scale(dr.n), dr.end[2] * Scale(dr.n)>>)),
                !.at = "done", !.ret = "None"]

\* line 271: the send() of a dispatch raises, and drag_mouse with it
DragFail ==
    /\ dr.at \in {"hover", "press", "move", "release"}
    /\ dr' = [dr EXCEPT !.at = "done", !.ret = "raised"]

(***************************************************************************)
(* evaluate, wait_for_ready and wait_for_expression.  A Python value is    *)
(* written as its repr.  A send() of Runtime.evaluate ends as the client   *)
(* above lets it end: it returns the result of the response frame, or it   *)
(* raises a protocol error, an error of the connection, or the             *)
(* CancelledError of a future that the receive loop cancelled.             *)
(***************************************************************************)
MaxAttempts == 3

\* values a page may hand back for an expression
JsValues == {"'complete'", "'loading'", "''", "0", "False", "True", "None"}

\* bool(v) is False for these
Falsy == {"''", "0", "False", "None", "{}"}

\* what send("Runtime.evaluate") may end in.  shape tells what it returned:
\* a result with a remote object that has a value, a remote object without a
\* value, a result without a remote object, or None (a frame without result)
SendOutcomes ==
    [kind : {"return"}, shape : {"value"}, value : JsValues]
      \cup [kind : {"return"}, shape : {"novalue", "noresult", "none"}, value : {""}]
      \cup [kind : {"RuntimeError", "ConnectionClosed", "ConnectError",
                    "CancelledError"},
            shape : {""}, value : {""}]

\* A plausible slip: `if remote.get("value")`, so that a falsy value is not returned.
EvaluateTruthyOnly(o) ==
    IF o.kind # "return" THEN [kind |-> o.kind, val |-> ""]
    ELSE IF o.shape = "none" THEN [kind |-> "AttributeError", val |-> ""]
    ELSE IF o.shape = "noresult" THEN [kind |-> "return", val |-> "{}"]
    ELSE IF o.shape = "novalue" \/ o.value \in Falsy
    THEN [kind |-> "return", val |-> "{'type': 'undefined'}"]
    ELSE [kind |-> "return", val |-> o.value]

\* evaluate, lines 212-220
Evaluate(o) ==
    IF o.kind # "return" THEN Raised(o.kind)
    ELSE IF o.shape = "none" THEN Raised("AttributeError")
    ELSE IF o.shape = "noresult" THEN [kind |-> "return", val |-> "{}"]
    ELSE IF o.shape = "novalue" THEN [kind |-> "return", val |-> "{'type': 'undefined'}"]
    ELSE [kind |-> "return", val |-> o.value]

\* `except Exception`: asyncio.CancelledError derives from BaseException
CaughtAsException(kind) == kind # "CancelledError"

\* A plausible slip: a result counts as soon as it is not None.
TruthyNotNone(v) == v # "None"

\* wait_for_expression, line 337: `if result`
Truthy(v) == v \notin Falsy

\* lines 309 and 337: the condition that ends the polling
Met(fn, v) == IF fn = "wait_for_ready" THEN v = "'complete'" ELSE Truthy(v)

\* no send() of the call has ended
NoSend == [kind |-> "none", shape |-> "", value |-> ""]

NoPoll == [fn |-> "", at |-> "idle", log |-> << >>, last |-> NoSend, ret |-> NoOutcome]

PollIdle == pl = NoPoll

\* lines 303 and 332: the deadline is computed
PollCall(fn) ==
    /\ pl.at = "idle"
    /\ pl' = [NoPoll EXCEPT !.fn = fn, !.at = "head"]

(***************************************************************************)
(* lines 304-310 and 333-338: one round.  evaluate() is awaited; an        *)
(* exception that `except Exception` catches leaves None; a result that    *)
(* meets the condition is returned (True from wait_for_ready), otherwise   *)
(* the helper sleeps and is back at the head of its loop.                  *)
(***************************************************************************)
PollAttempt(o) ==
    /\ pl.at = "head"
    /\ pl.fn # "evaluate"
    /\ Len(pl.log) < MaxAttempts
    /\ LET e == Evaluate(o)
           v == IF e.kind = "return" THEN e.val ELSE "None"
           tried == [pl EXCEPT !.log = Append(@, e), !.last = o]
       IN  IF e.kind # "return" /\ ~CaughtAsException(e.kind)
           THEN pl' = [tried EXCEPT !.at = "done", !.ret = e]
           ELSE IF Met(pl.fn, v)
           THEN pl' = [tried EXCEPT
                         !.at = "done",
                         !.ret = [kind |-> "return",
                                  val |-> IF pl.fn = "wait_for_ready"
                                          THEN "True" ELSE v]]
           ELSE pl' = tried

\* evaluate called by itself, lines 212-220: one send(), and what comes of it
EvaluateOnce(o) ==
    /\ pl.at = "head"
    /\ pl.fn = "evaluate"
    /\ pl' = [pl EXCEPT !.log = <<Evaluate(o)>>, !.last = o, !.at = "done",
                        !.ret = Evaluate(o)]

\* lines 304/312 and 333/340: the deadline has passed at the head of the loop
PollTimeout ==
    /\ pl.at = "head"
    /\ pl.fn # "evaluate"
    /\ pl' = [pl EXCEPT
                !.at = "done",
                !.ret = [kind |-> "return",
                         val |-> IF pl.fn = "wait_for_ready" THEN "False" ELSE "None"]]

(***************************************************************************)
(* capture_screenshot.  A clip is a record; `given` tells what the caller  *)
(* passed (None, an empty dict, or a dict with the five keys) or, in the   *)
(* parameters of the capture, whether the "clip" key is there.             *)
(***************************************************************************)
DefaultWidth == 800
DefaultHeight == 600

NoClip == [given |-> "None", x |-> 0, y |-> 0, width |-> 0, height |-> 0, scale |-> 0]
EmptyClip == [NoClip EXCEPT !.given = "{}"]
Clip(x, y, width, height) ==
    [given |-> "dict", x |-> x, y |-> y, width |-> width, height |-> height,
     scale |-> 1]

\* the clips a caller passes
Clips == {NoClip, EmptyClip, Clip(10, 20, 300, 200)}

\* what send("Page.getLayoutMetrics") may end in: a result with a contentSize that
\* has or lacks a width and a height, a result without contentSize, None, or a raise
MetricsOutcomes ==
    [kind : {"return"}, shape : {"content"}, has_width : BOOLEAN, width : {1024},
     has_height : BOOLEAN, height : {2000, 3000}]
      \cup [kind : {"return"}, shape : {"nocontent", "none"}, has_width : {FALSE},
            width : {0}, has_height : {FALSE}, height : {0}]
      \cup [kind : {"RuntimeError", "ConnectionClosed", "ConnectError",
                    "CancelledError"},
            shape : {""}, has_width : {FALSE}, width : {0}, has_height : {FALSE},
            height : {0}]

\* what send("Page.captureScreenshot") may end in: a result with or without data,
\* None, or a raise
CaptureOutcomes ==
    [kind : {"return"}, shape : {"data", "nodata", "none"}]
      \cup [kind : {"RuntimeError", "ConnectionClosed", "ConnectError",
                    "CancelledError"},
            shape : {""}]

\* no metrics query has ended
NoMetrics == [kind |-> "none", shape |-> "", has_width |-> FALSE, width |-> 0,
              has_height |-> FALSE, height |-> 0]

NoShot == [at |-> "idle", clip |-> NoClip, full_page |-> FALSE, params |-> NoClip,
           sent |-> << >>, metrics |-> NoMetrics, ret |-> NoOutcome]

ShotIdle == sh = NoShot

\* lines 232-236: an explicit clip goes into the parameters; without one and with
\* full_page the layout metrics are asked for first
ShotCall(clip, full_page) ==
    /\ sh.at = "idle"
    /\ sh' = [NoShot EXCEPT
                !.clip = clip, !.full_page = full_page,
                !.params = IF clip.given = "dict" THEN clip ELSE NoClip,
                !.at = IF clip.given # "dict" /\ full_page THEN "metrics"
                       ELSE "capture"]

\* lines 238-245: the clip made from the metrics; .get on None raises AttributeError
ClipFromMetrics(m) ==
    IF m.shape = "none" THEN Raised("AttributeError")
    ELSE [kind |-> "return",
          val |-> Clip(0, 0,
                       IF m.shape = "content" /\ m.has_width
                       THEN m.width ELSE DefaultWidth,
                       IF m.shape = "content" /\ m.has_height
                       THEN m.height ELSE DefaultHeight)]

(***************************************************************************)
(* lines 236-247: the metrics query ends.  Its result gives the clip; an   *)
(* exception that `except Exception` catches leaves the parameters without *)
(* a clip; any other goes on to the caller.                                *)
(***************************************************************************)
ShotMetrics(m) ==
    /\ sh.at = "metrics"
    /\ LET query == [method |-> "Page.getLayoutMetrics", clip |-> NoClip]
           made == IF m.kind = "return" THEN ClipFromMetrics(m) ELSE Raised(m.kind)
           asked == [sh EXCEPT !.sent = Append(@, query), !.metrics = m]
       IN  IF made.kind = "return"
           THEN sh' = [asked EXCEPT !.params = made.val, !.at = "capture"]
           ELSE IF CaughtAsException(made.kind)
           THEN sh' = [asked EXCEPT !.at = "capture"]
           ELSE sh' = [asked EXCEPT !.at = "done", !.ret = made]

\* lines 248-249: the capture is sent; result.get("data") is returned
ShotCapture(c) ==
    /\ sh.at = "capture"
    /\ sh' = [sh EXCEPT
                !.sent = Append(@, [method |-> "Page.captureScreenshot",
                                    clip |-> sh.params]),
                !.at = "done",
                !.ret = IF c.kind # "return" THEN Raised(c.kind)
                        ELSE IF c.shape = "none" THEN Raised("AttributeError")
                        ELSE [kind |-> "return",
                              val |-> IF c.shape = "data" THEN "'iVBORw0KGgo='"
                                      ELSE "None"]]

(***************************************************************************)
(* The specifications.  Each one moves its own variables and leaves the    *)
(* others as they start.                                                   *)
(***************************************************************************)
(***************************************************************************)
(* Response frames that answer no request in flight.  The receive loop     *)
(* reads whatever the browser sends: _read_loop, lines 136-144, looks the  *)
(* id of a response frame up in the pending table and does nothing for an  *)
(* id the table does not hold.                                             *)
(***************************************************************************)
MaxStray == 1

\* the ids of such frames: one already delivered, and one never issued
StrayIds == {1, MaxMsgId + 1}

\* note_service, lines 417-418: the handlers a capture registers on the client
CaptureHandlers ==
    [e \in Events |->
        IF e = "Network.responseReceived" THEN <<"on_response">>
        ELSE <<"on_loading_finished">>]

\* the receive loop has read no response frame in the step just taken
NoFrame == [id |-> 0, known |-> FALSE, failed |-> FALSE]

FrameIdle == fr = NoFrame

(***************************************************************************)
(* The browser sends a response frame for an id the pending table does not *)
(* hold: it repeats an answer already delivered, or answers an id that was *)
(* never issued.                                                           *)
(***************************************************************************)
Stray(g, id, o) ==
    /\ ws[g] = "open"
    /\ id \notin pending_requests
    /\ Cardinality({f \in inbox[g] : f.id \notin pending_requests}) < MaxStray
    /\ inbox' = [inbox EXCEPT ![g] =
                    @ \cup {[id |-> id, kind |-> o.kind, val |-> o.val]}]
    /\ did' = Quiet
    /\ UNCHANGED <<msg_id, session, target_id, reused_existing, lock,
                   pending_requests, future, nconn, ws, reader, unanswered,
                   answered, pc, phase, cur>>

\* _read_loop, lines 145-147: the frame makes the loop call set_exception
FailureDelivered(frame) ==
    /\ frame.id \in pending_requests
    /\ future[frame.id].st = "pending"
    /\ frame.kind = "error"

\* _read_loop, lines 139-147: the id of the frame read, `msg_id in self._pending_requests`,
\* and whether a failure has been delivered by now
FrameRead(frame) ==
    [id |-> frame.id, known |-> frame.id \in pending_requests,
     failed |-> fr.failed \/ FailureDelivered(frame)]

(***************************************************************************)
(* The comment accumulator of note_service.  collect_note_details keeps    *)
(* the comments of the note it is at in the module-level list              *)
(* current_note_comments (line 12), which every call of it rebinds and     *)
(* extends; each call has a client of its own (line 241), on which it      *)
(* registers a new pair of handlers for every note (lines 417-418).  A     *)
(* comment is known by the workflow and the note whose page it is from; a  *)
(* pair of handlers by the note it was made for.                           *)
(***************************************************************************)
MaxNotes == 2
MaxComments == 3
Workflows == {1, 2}

\* how the body of a comment response parses
BodyShapes == {"object", "text"}

\* collect_note_details, lines 241-244: a call that has not reached its first note
NoWorkflow == [at |-> "list", note |-> 0, handlers |-> << >>, ran |-> << >>,
               comments |-> << >>]

NotesIdle ==
    /\ current_note_comments = << >>
    /\ wk = [w \in Workflows |-> NoWorkflow]

\* the handlers of the workflows ran for no event frame in this step
NoneRan(w, state) == [state EXCEPT !.ran = << >>]

Comment(w) == [wf |-> w, note |-> wk[w].note]

\* k copies of the comment
RECURSIVE Copies(_, _)
Copies(c, k) == IF k = 0 THEN << >> ELSE <<c>> \o Copies(c, k - 1)

(***************************************************************************)
(* fetch_body, lines 396-403, and _parse_comment_response, lines 911-950:  *)
(* the body is decoded with json.loads and the value is handed to          *)
(* _parse_comment_response, which calls json.loads on it again.  For a     *)
(* body that is a JSON object that call raises TypeError, which is caught, *)
(* and no comment comes out; only a body that is JSON text holding JSON    *)
(* yields comments.                                                        *)
(***************************************************************************)
ParseCommentResponse(shape, c) == IF shape = "text" THEN <<c>> ELSE << >>

\* collect_note_details, lines 332-333: the next note is taken, the list is rebound
NoteReset(w) ==
    /\ wk[w].at = "list"
    /\ wk[w].note < MaxNotes
    /\ current_note_comments' = << >>
    /\ wk' = [v \in Workflows |->
                IF v = w THEN [wk[w] EXCEPT !.at = "enabling", !.note = @ + 1,
                                            !.ran = << >>]
                ELSE NoneRan(v, wk[v])]

\* lines 413-418: Network.enable is answered, the handlers of this note are registered
NoteListen(w) ==
    /\ wk[w].at = "enabling"
    /\ wk' = [v \in Workflows |->
                IF v = w THEN [wk[w] EXCEPT !.at = "note",
                                            !.handlers = Append(@, wk[w].note),
                                            !.ran = << >>]
                ELSE NoneRan(v, wk[v])]
    /\ UNCHANGED current_note_comments

(***************************************************************************)
(* A comment response of the page of workflow w is received and finished   *)
(* loading: _read_loop, lines 154-156, invokes every handler registered on *)
(* the client for the two events; every on_response records the request    *)
(* (line 357), every on_loading_finished starts a fetch_body for it (line  *)
(* 377), and every fetch_body extends the list with what the body parses   *)
(* to (line 403).                                                          *)
(***************************************************************************)
NoteEvent(w, shape) ==
    /\ wk[w].at = "note"
    /\ LET got == ParseCommentResponse(shape, Comment(w))
           all == Copies(Comment(w), Len(got) * Len(wk[w].handlers))
       IN  /\ Len(current_note_comments) + Len(all) <= MaxComments
           /\ current_note_comments' = current_note_comments \o all
    /\ wk' = [v \in Workflows |->
                IF v = w THEN [wk[w] EXCEPT !.ran = wk[w].handlers]
                ELSE NoneRan(v, wk[v])]

(***************************************************************************)
(* lines 446-456: the comments found in the page that the list does not    *)
(* hold by content are appended to the list, and the note is given the     *)
(* flattened list; lines 474-487: the workflow goes back to the listing.   *)
(***************************************************************************)
NoteMerge(w, dom) ==
    /\ wk[w].at = "note"
    /\ Len(current_note_comments) + dom <= MaxComments
    /\ LET merged == current_note_comments \o Copies(Comment(w), dom)
       IN  /\ current_note_comments' = merged
           /\ wk' = [v \in Workflows |->
                       IF v = w THEN [wk[w] EXCEPT !.at = "list", !.comments = merged,
                                                   !.ran = << >>]
                       ELSE NoneRan(v, wk[v])]

vars == <<reuseVars, resolveVars, clientVars, guardVars, helperVars>>

HelperIdle == EventsIdle /\ DragIdle /\ PollIdle /\ ShotIdle /\ FrameIdle /\ NotesIdle

ReuseIdle ==
    /\ ru_initial = [scheme |-> S_none, user |-> << >>, host |-> H_empty,
                     port |-> << >>, path |-> P_none]
    /\ ru_target = ru_initial
    /\ ru_result = [set |-> FALSE, val |-> FALSE]

ResolveIdle ==
    /\ rs_in = [listing |-> << >>, list |-> 200, get |-> 200, post |-> 200]
    /\ rs_out = [set |-> FALSE, res |-> NoResolution]

GuardIdle ==
    /\ alive = FALSE
    /\ manage_process = FALSE
    /\ proc = 0
    /\ started_here = FALSE
    /\ launch_lock = 0
    /\ spawned = 0
    /\ running = {}
    /\ gpc = [t \in GuardTasks |-> "idle"]
    /\ sd = NoShutdown
    /\ lc = NoScopes
    /\ auto_close = FALSE
    /\ gh = [steady |-> TRUE, trues |-> 0]
    /\ gdid = GuardQuiet

\* a step of the supervisor leaves the harnesses and the client alone
GuardOnly == UNCHANGED <<reuseVars, resolveVars, clientVars, helperVars>>

NextGuard ==
    \/ \E t \in GuardTasks : EnsureCall(t) /\ GuardOnly
    \/ \E t \in GuardTasks : EnsureAcquire(t) /\ GuardOnly
    \/ \E t \in GuardTasks : EnsureProbe(t) /\ GuardOnly
    \/ \E t \in GuardTasks : EnsureSpawn(t) /\ GuardOnly
    \/ \E t \in GuardTasks : EnsureWait(t) /\ GuardOnly
    \/ \E t \in GuardTasks : EnsureWake(t) /\ GuardOnly
    \/ ShutdownStart /\ GuardOnly
    \/ \E t \in GuardTasks : LifecycleEnter(t) /\ GuardOnly
    \/ \E t \in GuardTasks, how \in {"returned", "raised"} :
          LifecycleExit(t, how) /\ GuardOnly
    \/ \E wait \in WaitOutcomes : ShutdownFinish(wait) /\ GuardOnly
    \/ EndpointChange /\ GuardOnly
    \/ \E k \in 1..MaxSpawn : ProcessExit(k) /\ GuardOnly

InitReuse == ReuseInit /\ ResolveIdle /\ ClientInit /\ GuardIdle /\ HelperIdle

SpecReuse ==
    /\ InitReuse
    /\ [][ReuseNext /\ UNCHANGED <<resolveVars, clientVars, guardVars, helperVars>>]_vars

InitResolve == ResolveInit /\ ReuseIdle /\ ClientInit /\ GuardIdle /\ HelperIdle

SpecResolve ==
    /\ InitResolve
    /\ [][ResolveNext /\ UNCHANGED <<reuseVars, clientVars, guardVars, helperVars>>]_vars

InitGuard == GuardInit /\ ReuseIdle /\ ResolveIdle /\ ClientInit /\ HelperIdle

SpecGuard ==
    /\ InitGuard
    /\ [][NextGuard]_vars

Init == ClientInit /\ ReuseIdle /\ ResolveIdle /\ GuardIdle /\ HelperIdle

\* a step of the client leaves the harnesses and the supervisor alone
ClientOnly == UNCHANGED <<reuseVars, resolveVars, guardVars, helperVars>>

Next ==
    \/ \E t \in Tasks : Call(t) /\ ClientOnly
    \/ \E t \in Tasks : Acquire(t) /\ ClientOnly
    \/ \E t \in Tasks : Resolve(t) /\ ClientOnly
    \/ \E t \in Tasks : Connect(t) /\ ClientOnly
    \/ \E t \in Tasks : Resume(t) /\ ClientOnly
    \/ \E t \in Tasks : Cancel(t) /\ ClientOnly
    \/ \E u \in unanswered, o \in Outcomes : Answer(u, o) /\ ClientOnly
    \/ \E g \in 1..nconn : Drop(g) /\ ClientOnly
    \/ \E g \in 1..nconn : \E frame \in inbox[g] : ReadFrame(g, frame) /\ ClientOnly
    \/ \E g \in 1..nconn : ReadEnd(g) /\ ClientOnly
    \/ Close /\ ClientOnly

Spec == Init /\ [][Next]_vars

\* asyncio runs every task that can run: the receive loops and the resumed callers
LiveSpec ==
    /\ Spec
    /\ \A g \in 1..MaxConn : WF_vars(g <= nconn /\ ReaderStep(g) /\ ClientOnly)
    /\ \A t \in Tasks : WF_vars(Resume(t) /\ ClientOnly)

\* a registration or a dispatch leaves the harnesses and the supervisor alone
EventsOnly ==
    UNCHANGED <<reuseVars, resolveVars, guardVars, dragVars, pollVars, shotVars,
                frameVars, noteVars>>

\* a step of the client reads no event frame and registers nothing
ClientAmidEvents ==
    /\ UNCHANGED <<reuseVars, resolveVars, guardVars, event_handlers, hd, dragVars,
                   pollVars, shotVars, frameVars, noteVars>>
    /\ edid' = EvQuiet

InitEvents ==
    /\ ConnectedInit /\ EventsIdle /\ ReuseIdle /\ ResolveIdle /\ GuardIdle
    /\ DragIdle /\ PollIdle /\ ShotIdle /\ FrameIdle /\ NotesIdle

NextEvents ==
    \/ \E e \in Events, h \in Handlers : On(e, h) /\ EventsOnly
    \/ \E g \in 1..nconn, e \in Events : ReadEvent(g, e) /\ EventsOnly
    \/ \E g \in 1..nconn, e \in Events, t \in Tasks \cup {0} :
          ReadEventAwait(g, e, t) /\ EventsOnly
    \/ HandlerDone /\ EventsOnly
    \/ \E t \in Tasks : Call(t) /\ ClientAmidEvents
    \/ \E t \in Tasks : Acquire(t) /\ ClientAmidEvents
    \/ \E t \in Tasks : Resume(t) /\ ClientAmidEvents
    \/ \E t \in Tasks \ {hd.task} : Cancel(t) /\ ClientAmidEvents
    \/ \E u \in unanswered, o \in Outcomes : Answer(u, o) /\ ClientAmidEvents
    \/ \E g \in 1..nconn : Drop(g) /\ ClientAmidEvents
    \/ \E g \in 1..nconn : \E frame \in inbox[g] : ReadFrame(g, frame) /\ ClientAmidEvents
    \/ \E g \in 1..nconn : ReadEnd(g) /\ ClientAmidEvents
    \/ Close /\ ClientAmidEvents

\* the receive loop of a connected client, with handlers registered at any time
SpecEvents == InitEvents /\ [][NextEvents]_vars

\* a step of the gesture leaves everything else alone
DragOnly ==
    UNCHANGED <<reuseVars, resolveVars, clientVars, guardVars, eventVars, pollVars,
                shotVars, frameVars, noteVars>>

InitDrag ==
    /\ DragIdle /\ ClientInit /\ ReuseIdle /\ ResolveIdle /\ GuardIdle
    /\ EventsIdle /\ PollIdle /\ ShotIdle /\ FrameIdle /\ NotesIdle

NextDrag ==
    \/ \E start \in Points, end \in Points, steps \in 0..MaxSteps :
          DragCall(start, end, steps) /\ DragOnly
    \/ DragHover /\ DragOnly
    \/ DragPress /\ DragOnly
    \/ DragStep /\ DragOnly
    \/ DragArrive /\ DragOnly
    \/ DragRelease /\ DragOnly
    \/ DragFail /\ DragOnly

\* one drag_mouse call, with any end points and any step count
SpecDrag == InitDrag /\ [][NextDrag]_vars

\* a step of a polling helper leaves everything else alone
PollOnly ==
    UNCHANGED <<reuseVars, resolveVars, clientVars, guardVars, eventVars, dragVars,
                shotVars, frameVars, noteVars>>

InitPoll ==
    /\ PollIdle /\ ClientInit /\ ReuseIdle /\ ResolveIdle /\ GuardIdle
    /\ EventsIdle /\ DragIdle /\ ShotIdle /\ FrameIdle /\ NotesIdle

NextPoll ==
    \/ \E fn \in {"wait_for_ready", "wait_for_expression", "evaluate"} :
          PollCall(fn) /\ PollOnly
    \/ \E o \in SendOutcomes : PollAttempt(o) /\ PollOnly
    \/ \E o \in SendOutcomes : EvaluateOnce(o) /\ PollOnly
    \/ PollTimeout /\ PollOnly

\* one call of a polling helper, whatever its evaluations end in
SpecPoll == InitPoll /\ [][NextPoll]_vars

\* a step of a screenshot leaves everything else alone
ShotOnly ==
    UNCHANGED <<reuseVars, resolveVars, clientVars, guardVars, eventVars, dragVars,
                pollVars, frameVars, noteVars>>

InitShot ==
    /\ ShotIdle /\ ClientInit /\ ReuseIdle /\ ResolveIdle /\ GuardIdle
    /\ EventsIdle /\ DragIdle /\ PollIdle /\ FrameIdle /\ NotesIdle

NextShot ==
    \/ \E clip \in Clips, full_page \in BOOLEAN : ShotCall(clip, full_page) /\ ShotOnly
    \/ \E m \in MetricsOutcomes : ShotMetrics(m) /\ ShotOnly
    \/ \E c \in CaptureOutcomes : ShotCapture(c) /\ ShotOnly

\* one capture_screenshot call, whatever its commands end in
SpecShot == InitShot /\ [][NextShot]_vars

\* a step of the client or of the browser, or the dispatch of an event, reads no response frame
FramesOnly ==
    /\ UNCHANGED <<reuseVars, resolveVars, guardVars, dragVars, pollVars, shotVars,
                   noteVars>>
    /\ fr' = [NoFrame EXCEPT !.failed = fr.failed]

\* a step of the client or of the browser invokes no handler
FramesQuiet == UNCHANGED <<event_handlers, hd>> /\ edid' = EvQuiet

\* the receive loop notes the response frame it reads
FrameNoted(frame) ==
    /\ UNCHANGED <<reuseVars, resolveVars, guardVars, dragVars, pollVars, shotVars,
                   noteVars>>
    /\ fr' = FrameRead(frame)

\* a connected client with a command in flight and the handlers of a capture registered
InitFrames ==
    /\ ConnectedInit /\ ReuseIdle /\ ResolveIdle /\ GuardIdle
    /\ event_handlers = CaptureHandlers /\ edid = EvQuiet /\ hd = NoHandling
    /\ DragIdle /\ PollIdle /\ ShotIdle /\ FrameIdle /\ NotesIdle

NextFrames ==
    \/ \E g \in 1..nconn, e \in Events : ReadEvent(g, e) /\ FramesOnly
    \/ \E t \in Tasks : Call(t) /\ FramesQuiet /\ FramesOnly
    \/ \E t \in Tasks : Acquire(t) /\ FramesQuiet /\ FramesOnly
    \/ \E t \in Tasks : Resume(t) /\ FramesQuiet /\ FramesOnly
    \/ \E u \in unanswered, o \in Outcomes : Answer(u, o) /\ FramesQuiet /\ FramesOnly
    \/ \E g \in 1..nconn, id \in StrayIds, o \in Outcomes :
          Stray(g, id, o) /\ FramesQuiet /\ FramesOnly
    \/ \E g \in 1..nconn : \E frame \in inbox[g] :
          ReadFrame(g, frame) /\ FramesQuiet /\ FrameNoted(frame)

\* the receive loop of a connected client whose browser also sends frames nobody asked for
SpecFrames == InitFrames /\ [][NextFrames]_vars

\* a step of a collection workflow leaves everything else alone
NotesOnly ==
    UNCHANGED <<reuseVars, resolveVars, clientVars, guardVars, eventVars, dragVars,
                pollVars, shotVars, frameVars>>

InitNotes ==
    /\ NotesIdle /\ ClientInit /\ ReuseIdle /\ ResolveIdle /\ GuardIdle
    /\ EventsIdle /\ DragIdle /\ PollIdle /\ ShotIdle /\ FrameIdle

NextNotes ==
    \/ \E w \in Workflows : NoteReset(w) /\ NotesOnly
    \/ \E w \in Workflows : NoteListen(w) /\ NotesOnly
    \/ \E w \in Workflows, shape \in BodyShapes : NoteEvent(w, shape) /\ NotesOnly
    \/ \E w \in Workflows, dom \in 0..1 : NoteMerge(w, dom) /\ NotesOnly

\* collect_note_details calls running at the same time in one process
SpecNotes == InitNotes /\ [][NextNotes]_vars

(***************************************************************************)
(* C1.  Whatever the calls made on one client and whatever the order in    *)
(* which the response frames arrive, a send call that returns a value or   *)
(* raises a protocol error gets the outcome of the response frame the      *)
(* browser sent for the id that call put on the wire, never the outcome of *)
(* a frame sent for another id.                                            *)
(***************************************************************************)
\* the call ended in `await future` with what the future held
FromFuture ==
    did.op = "return" /\ did.id # 0 /\ did.outcome.kind \in {"return", "RuntimeError"}

C1_OutcomeOfOwnFrame ==
    FromFuture =>
        /\ did.frame # NoOutcome
        /\ did.outcome = Awaited(Delivered(did.frame))

\* a call returns its own result while the frame of an abandoned command was around
C1_Witness ==
    /\ did.op = "return"
    /\ did.outcome.kind = "return"
    /\ did.frame.kind = "result"
    /\ \E n \in 1..MaxMsgId :
          /\ n < did.id
          /\ \/ n \in pending_requests
             \/ \E g \in 1..nconn : \E f \in inbox[g] : f.id = n

(***************************************************************************)
(* C2.  A send call that awaits its response on a channel that has ended   *)
(* (closed by the browser, lost, or closed by close()), the response not   *)
(* being among the frames received, is eventually resumed, the pending     *)
(* table is emptied of its entry, and what resumes it is a cancellation:   *)
(* no caller stays suspended.                                              *)
(***************************************************************************)
Outstanding(t) ==
    /\ pc[t] = "await"
    /\ future[cur[t]].st = "pending"
    /\ ws[nconn] = "closed"
    /\ \A f \in inbox[nconn] : f.id # cur[t]

C3_SecondCommandCanBeSent ==
    \A t \in Tasks : \A u \in Tasks \ {t} :
        (/\ pc[t] = "await" /\ phase[t] = Command
         /\ future[cur[t]].st = "pending"
         /\ Connected
         /\ pc[u] = "lock"
         /\ msg_id < MaxMsgId) => ENABLED Acquire(u)

(***************************************************************************)
(* C4.  A response frame with a result R for the id of a command makes the *)
(* send call that issued it return R, and a response frame with an error E *)
(* makes the call fail with a RuntimeError carrying E (unless the call is  *)
(* cancelled before the frame is read).                                    *)
(***************************************************************************)
C4_ResultReturnedErrorRaised ==
    /\ \A t \in Tasks :
          (pc[t] = "await" /\ future[cur[t]].st \in {"result", "exception"}) =>
              /\ answered[t].kind = "result" =>
                    future[cur[t]] = [st |-> "result", val |-> answered[t].val]
              /\ answered[t].kind = "error" =>
                    future[cur[t]] = [st |-> "exception", val |-> answered[t].val]
    /\ (did.op = "return" /\ did.outcome.kind # "CancelledError") =>
          /\ (did.frame.kind = "result" /\ did.method = Command) =>
                did.outcome = [kind |-> "return", val |-> did.frame.val]
          /\ did.frame.kind = "error" =>
                did.outcome = [kind |-> "RuntimeError", val |-> did.frame.val]

\* a call has just failed with the payload of the error frame sent for its id
C4_Witness ==
    /\ did.op = "return"
    /\ did.frame.kind = "error"
    /\ did.outcome.kind = "RuntimeError"
    /\ did.method = Command

(***************************************************************************)
(* C5.  The id counter never goes back, every command a call starts to     *)
(* await (the enable commands of a connect included, and after close() and *)
(* a reconnect) has an id greater than every id allocated before, and no   *)
(* two calls await the same id.                                            *)
(***************************************************************************)
C5_IdsStrictlyIncrease ==
    [][/\ msg_id' >= msg_id
       /\ \A t \in Tasks :
             (pc'[t] = "await" /\ (pc[t] # "await" \/ cur'[t] # cur[t])) =>
                 /\ cur'[t] > msg_id
                 /\ cur'[t] = msg_id'
                 /\ cur'[t] \in pending_requests' \ pending_requests
       /\ \A u \in unanswered' \ unanswered : u.id > msg_id
       /\ \A t \in Tasks : \A u \in Tasks \ {t} :
             (pc'[t] = "await" /\ pc'[u] = "await") => cur'[t] # cur'[u]]_vars

\* the client was closed and has reconnected: a frame of the second channel is out
C5_Witness ==
    /\ nconn = 2 /\ session = 2
    /\ \E u \in unanswered : u.conn = 2 /\ u.id = msg_id /\ u.id > 2

(***************************************************************************)
(* C6.  close() asks the browser to close a target only when this client   *)
(* created it: the id it asks to close is never the id of a page that the  *)
(* listing already held.                                                   *)
(***************************************************************************)
C6_ClosesOnlyCreatedTargets ==
    did.op = "close" => did.http \in {NoTarget, CreatedId}

(***************************************************************************)
(* C9.  close() leaves the client without session, target id and reuse     *)
(* mark; a close() on a client in that state (closed before with no send   *)
(* since, or never connected) closes no websocket, makes no HTTP request   *)
(* and changes nothing.                                                    *)
(***************************************************************************)
ClosedState ==
    session = 0 /\ target_id = NoTarget /\ ~reused_existing

C9_CloseIdempotent ==
    [][did'.op = "close" =>
          /\ ClosedState'
          /\ ClosedState =>
                /\ did' = Closed(FALSE, NoTarget)
                /\ UNCHANGED <<msg_id, session, target_id, reused_existing, lock,
                               pending_requests, future, nconn, ws, reader,
                               inbox, unanswered, answered, pc, phase, cur>>]_vars

\* a close() has just run on a client that was connected and closed before
C9_Witness ==
    /\ did = Closed(FALSE, NoTarget)
    /\ ClosedState
    /\ nconn >= 1

(***************************************************************************)
(* C7.  When target creation ends with method-not-allowed (the GET and     *)
(* then the POST are both answered 405) and the listing held at least one  *)
(* page-type entry with a channel address, resolution succeeds and returns *)
(* the channel address of the first such entry in listing order.           *)
(***************************************************************************)
FirstPageWithAddress(listing) ==
    CHOOSE i \in DOMAIN listing :
        /\ listing[i].type = "page" /\ listing[i].webSocketDebuggerUrl # ""
        /\ \A j \in 1..(i - 1) :
              listing[j].type # "page" \/ listing[j].webSocketDebuggerUrl = ""

CreationBlocked ==
    /\ rs_out.set
    /\ rs_out.res.requests = <<"LIST", "GET", "POST">>
    /\ rs_in.get = MethodNotAllowed /\ rs_in.post = MethodNotAllowed

HasPageWithAddress(listing) ==
    \E i \in DOMAIN listing :
        listing[i].type = "page" /\ listing[i].webSocketDebuggerUrl # ""

C7_FallbackOnMethodNotAllowed ==
    (CreationBlocked /\ HasPageWithAddress(rs_in.listing)) =>
        /\ rs_out.res.ok
        /\ rs_out.res.ws =
              rs_in.listing[FirstPageWithAddress(rs_in.listing)].webSocketDebuggerUrl

\* two candidates are listed, creation is blocked, the first one is returned
C7_Witness ==
    /\ CreationBlocked
    /\ Cardinality({i \in DOMAIN rs_in.listing :
                      rs_in.listing[i].type = "page"
                      /\ rs_in.listing[i].webSocketDebuggerUrl # ""}) = 2
    /\ rs_out.res.ok /\ rs_out.res.ws = EntryWs[1]

(***************************************************************************)
(* C8.  The reuse predicate is true exactly when the target URL starts     *)
(* with about:blank, or the allowed host is non-empty and the target's     *)
(* host equals it or ends with "." followed by it.  The hosts are those    *)
(* the URLs were built from: a URL has a host only after "scheme://", and  *)
(* it is the text between the user part and the port, in lower case.       *)
(***************************************************************************)
PartsHost(p) ==
    IF p.scheme = S_https /\ p.host # << >> THEN Lower(p.host) ELSE NoHost

ReuseExpected(ini, tgt) ==
    LET allowed == IF ini.scheme = S_about THEN NoHost ELSE PartsHost(ini)
        host == PartsHost(tgt)
    IN  /\ BuildUrl(tgt) # << >>
        /\ \/ StartsWith(BuildUrl(tgt), AboutBlank)
           \/ /\ allowed # NoHost
              /\ host # NoHost
              /\ \/ host = allowed
                 \/ EndsWith(host, <<".">> \o allowed)

C8_ReusePredicate ==
    ru_result.set => (ru_result.val <=> ReuseExpected(ru_initial, ru_target))

\* https://sub.example.com/p is reusable for the allowed host example.com
C8_Witness ==
    /\ BuildUrl(ru_initial) = S_https \o H_example
    /\ BuildUrl(ru_target) = S_https \o H_sub \o P_p
    /\ ru_result = [set |-> TRUE, val |-> TRUE]

(***************************************************************************)
(* C10.  An ensure() whose reachability probe succeeds returns False and   *)
(* takes no launch step: the profile is not cleaned, no process is         *)
(* spawned, and the process handle and _started_here stay as they were;    *)
(* so for every call made while the endpoint is reachable.                 *)
(***************************************************************************)
ProbeAnswered(t) ==
    gpc[t] = "probe" /\ gpc'[t] # "probe"

C10_ReachableEnsureIsNoOp ==
    [][\A t \in GuardTasks :
          (ProbeAnswered(t) /\ alive) =>
              /\ gdid' = EnsureReturned(t, "False")
              /\ gpc'[t] = "idle"
              /\ UNCHANGED <<proc, started_here, spawned, running>>]_vars

\* a second ensure() has returned False after this supervisor launched a browser
C10_Witness ==
    /\ gdid.op = "ensure" /\ gdid.ret = "False"
    /\ alive
    /\ proc # 0 /\ started_here

(***************************************************************************)
(* C11.  With process management enabled, the endpoint unreachable at the  *)
(* start, coming up only after the launch and staying up, and no launch    *)
(* failing, the ensure() calls made concurrently on one supervisor spawn   *)
(* one process in all, one of them returns True, and every call that       *)
(* returns otherwise returns False, after the one that returned True.      *)
(***************************************************************************)
C11_OneLaunchOneTrue ==
    (manage_process /\ gh.steady) =>
        /\ spawned <= 1
        /\ gh.trues <= spawned
        /\ gdid.op = "ensure" =>
              /\ gdid.ret \in {"True", "False"}
              /\ spawned = 1 /\ gh.trues = 1

\* a second call has returned False after the call that launched returned True
C11_Witness ==
    /\ manage_process /\ gh.steady
    /\ gdid.op = "ensure" /\ gdid.ret = "False"
    /\ gh.trues = 1 /\ spawned = 1

(***************************************************************************)
(* C12.  An ensure() whose probe finds the endpoint unreachable while      *)
(* process management is disabled raises an error at once: the profile is  *)
(* not cleaned, no process is spawned, readiness is not polled, and the    *)
(* process handle stays empty.                                             *)
(***************************************************************************)
C12_UnmanagedUnreachableFails ==
    [][\A t \in GuardTasks :
          (ProbeAnswered(t) /\ ~alive /\ ~manage_process) =>
              /\ gdid' = EnsureReturned(t, "RuntimeError")
              /\ gpc'[t] = "idle"
              /\ proc' = 0
              /\ UNCHANGED <<proc, started_here, spawned, running>>]_vars

\* an ensure() has just failed on an unmanaged, unreachable endpoint
C12_Witness ==
    /\ ~manage_process /\ ~alive
    /\ gdid.op = "ensure" /\ gdid.ret = "RuntimeError"
    /\ proc = 0 /\ spawned = 0

(***************************************************************************)
(* C13.  Whenever shutdown() ends, by returning or by raising, after the   *)
(* process exited, after it was killed, after terminate and kill failed,   *)
(* or without a handle to begin with, the process handle is empty and      *)
(* _started_here is false; and an ensure() that then finds the endpoint    *)
(* unreachable (management enabled) starts a launch, whose spawn puts a    *)
(* new process in the handle.                                              *)
(***************************************************************************)
C13_ShutdownClearsHandle ==
    [][/\ gdid'.op = "shutdown" => (proc' = 0 /\ ~started_here')
       /\ \A t \in GuardTasks :
             /\ (ProbeAnswered(t) /\ ~alive /\ manage_process /\ proc = 0) =>
                   (gpc'[t] = "spawning" /\ gdid'.op = "launch" /\ gdid'.cleaned)
             /\ (gpc[t] = "spawning" /\ gpc'[t] = "waiting") =>
                   /\ proc' = spawned + 1 /\ spawned' = spawned + 1
                   /\ proc' \in running' /\ started_here']_vars

\* a shutdown() has just ended after a process was launched, and left no handle
C13_Witness ==
    /\ gdid.op = "shutdown"
    /\ spawned >= 1 /\ 1 \notin running
    /\ proc = 0 /\ ~started_here

(***************************************************************************)
(* C14.  A lifecycle scope remembers whether the ensure() of its entry     *)
(* returned True.  When the scope is left, by the workload returning or by *)
(* its raising, shutdown() is called if and only if that ensure() returned *)
(* True and auto_close is set; in every other case the exit leaves the     *)
(* process handle, the started-here flag and the processes untouched.      *)
(***************************************************************************)
C14_ScopeShutsDownOwnLaunch ==
    [][\A t \in GuardTasks :
          /\ (lc[t].at = "entering" /\ lc'[t].at = "inside") =>
                /\ gdid'.op = "ensure" /\ gdid'.task = t
                /\ lc'[t].started <=> (gdid'.ret = "True")
          /\ (lc[t].at = "inside" /\ lc'[t].at # "inside") =>
                /\ gdid'.how \in {"returned", "raised"}
                /\ (\/ gdid'.op = "shutdown"
                    \/ (sd.at = "idle" /\ sd'.at = "stopping" /\ sd'.scope = t))
                      <=> (lc[t].started /\ auto_close)
                /\ ~(lc[t].started /\ auto_close) =>
                      /\ lc'[t] = NoScope /\ gdid'.op = "exit"
                      /\ UNCHANGED <<proc, started_here, running, spawned, sd>>]_vars

\* the workload of a scope that launched the browser raised, and shutdown() is under way
C14_Witness ==
    /\ auto_close /\ gdid.op = "exit" /\ gdid.how = "raised"
    /\ sd.at = "stopping" /\ sd.scope # 0 /\ sd.of = proc /\ proc # 0
    /\ lc[sd.scope].at = "closing" /\ lc[sd.scope].started

(***************************************************************************)
(* C15.  After the spawn, ensure() returns True only from a probe that     *)
(* succeeded; every other way out of the wait is a RuntimeError: a probe   *)
(* that failed while the handle's process had exited, or the deadline.     *)
(* The probe is asked before the process is looked at, so a probe that     *)
(* succeeds after the spawned process exited still makes ensure() return   *)
(* True.                                                                   *)
(***************************************************************************)
C15_TrueOnlyFromProbeAfterSpawn ==
    [][\A t \in GuardTasks :
          /\ (gpc[t] \in {"waiting", "sleeping"} /\ gpc'[t] = "idle") =>
                /\ gdid'.op = "ensure" /\ gdid'.task = t
                /\ gdid'.ret \in {"True", "RuntimeError"}
                /\ gdid'.ret = "True" <=> (gpc[t] = "waiting" /\ alive)
          /\ (gpc[t] = "waiting" /\ gpc'[t] # "waiting" /\ ~alive
                /\ proc # 0 /\ proc \notin running) =>
                (gpc'[t] = "idle" /\ gdid'.ret = "RuntimeError")]_vars

\* ensure() has returned True from a probe answered by the process it spawned
C15_Witness ==
    /\ gdid.op = "ensure" /\ gdid.ret = "True"
    /\ alive /\ spawned >= 1 /\ proc = spawned /\ proc \in running

(***************************************************************************)
(* C15 as stated: once the spawned process has exited with no probe having *)
(* succeeded, ensure() ends in a RuntimeError.                             *)
(***************************************************************************)
C15_ExitBeforeProbeFails ==
    [][\A t \in GuardTasks :
          (gpc[t] \in {"waiting", "sleeping"} /\ spawned \notin running
             /\ gpc'[t] = "idle") => gdid'.ret = "RuntimeError"]_vars

(***************************************************************************)
(* C16.  When the receive loop reads an event frame, it invokes every      *)
(* handler registered for the name of the event, in registration order,    *)
(* whichever of the invocations raise; the step leaves the receive loops   *)
(* running and the pending table, the futures and the registrations as     *)
(* they were.                                                              *)
(***************************************************************************)
C16_HandlerFailureIsContained ==
    [][edid'.event # "" =>
          /\ [i \in 1..Len(edid'.ran) |-> edid'.ran[i].handler]
                = event_handlers[edid'.event]
          /\ UNCHANGED <<reader, pending_requests, future, event_handlers>>]_vars

\* the first of two different handlers of an event raised, the second was invoked
\* after it, and a command is still awaited on the running loop
C16_Witness ==
    /\ edid.event # "" /\ Len(edid.ran) = 2
    /\ edid.ran[1].raised /\ ~edid.ran[2].raised
    /\ edid.ran[1].handler # edid.ran[2].handler
    /\ pending_requests # {} /\ reader[1] = "running"

(***************************************************************************)
(* C17.  A drag_mouse call that returns has dispatched, in this order: a   *)
(* mouseMoved and a mousePressed at the start point; max(steps, 2) - 1     *)
(* mouseMoved events with the left button held, the k-th within the jitter *)
(* of start + (end - start) * t^2(3 - 2t) for t = k/max(steps, 2), these   *)
(* eased positions never moving away from the end point nor past it; a     *)
(* mouseMoved at the end point; and last a mouseReleased at exactly the    *)
(* end point.  Nothing else is pressed or released.                        *)
(***************************************************************************)
Abs(i) == IF i < 0 THEN -i ELSE i

C17_DragEventOrder ==
    (dr.at = "done" /\ dr.ret = "None") =>
        LET n == IF dr.steps < 2 THEN 2 ELSE dr.steps
            u == n * n * n
            ev == dr.events
            \* the distance left to the end point along axis c, at event i
            left(i, c) == Abs(dr.end[c] * u - ev[i].eased[c])
        IN  /\ Len(ev) = n + 3
            /\ ev[2].type = "mousePressed"
            /\ <<ev[2].x, ev[2].y>> = <<dr.start[1] * u, dr.start[2] * u>>
            /\ \A k \in 1..(n - 1) :
                  /\ ev[2 + k].type = "mouseMoved" /\ ev[2 + k].buttons = 1
                  /\ \A c \in 1..2 :
                        /\ ev[2 + k].eased[c]
                             = u * dr.start[c]
                                 + (dr.end[c] - dr.start[c]) * k * k * (3 * n - 2 * k)
                        /\ left(2 + k, c) <= left(1 + k, c)
                        /\ dr.start[c] # dr.end[c] => left(2 + k, c) < left(1 + k, c)
                        /\ (dr.end[c] - dr.start[c])
                              * (dr.end[c] * u - ev[2 + k].eased[c]) >= 0
                  /\ 10 * Abs(ev[2 + k].x - ev[2 + k].eased[1]) <= 6 * u
                  /\ 10 * Abs(ev[2 + k].y - ev[2 + k].eased[2]) <= 4 * u
            /\ ev[n + 2].type = "mouseMoved"
            /\ ev[n + 3].type = "mouseReleased" /\ ev[n + 3].buttons = 0
            /\ <<ev[n + 3].x, ev[n + 3].y>> = <<dr.end[1] * u, dr.end[2] * u>>
            /\ \A i \in 1..Len(ev) :
                  /\ ev[i].type = "mousePressed" => i = 2
                  /\ ev[i].type = "mouseReleased" => i = n + 3

\* a drag called with a step count below 2 has returned after one eased move
C17_Witness ==
    /\ dr.at = "done" /\ dr.ret = "None"
    /\ dr.steps < 2 /\ dr.start # dr.end
    /\ Len(dr.events) = 5 /\ dr.events[3].x # dr.events[3].eased[1]

(***************************************************************************)
(* C18.  wait_for_ready and wait_for_expression never raise: an evaluation *)
(* that fails counts as "not yet ready", and at the deadline wait_for_ready*)
(* returns False and wait_for_expression returns None.                     *)
(***************************************************************************)
C18_PollingNeverRaises ==
    (pl.at = "done" /\ pl.fn \in {"wait_for_ready", "wait_for_expression"}) =>
        /\ pl.ret.kind = "return"
        /\ (pl.log # << >> /\ pl.log[Len(pl.log)].kind # "return") =>
              pl.ret.val = IF pl.fn = "wait_for_ready" THEN "False" ELSE "None"

(***************************************************************************)
(* C19.  wait_for_expression returns the value of the first evaluation     *)
(* whose result is truthy, and evaluates nothing after it; it returns None *)
(* only when no evaluation it made had a truthy result.  wait_for_ready    *)
(* returns True exactly when an evaluation it made returned 'complete',    *)
(* and evaluates nothing after that one.                                   *)
(***************************************************************************)
C19_FirstTruthyValue ==
    LET n == Len(pl.log)
        \* what the i-th evaluation left in the helper's variable
        got(i) == IF pl.log[i].kind = "return" THEN pl.log[i].val ELSE "None"
        truthy(i) == got(i) \notin {"''", "0", "False", "None", "{}"}
        returned(v) == pl.at = "done" /\ pl.ret = [kind |-> "return", val |-> v]
    IN  /\ pl.fn = "wait_for_expression" =>
              /\ \A i \in 1..n : truthy(i) => (i = n /\ returned(got(i)))
              /\ (pl.at = "done" /\ pl.ret.kind = "return" /\ pl.ret.val # "None") =>
                    (n > 0 /\ truthy(n) /\ pl.ret.val = got(n))
              /\ returned("None") => \A i \in 1..n : ~truthy(i)
        /\ pl.fn = "wait_for_ready" =>
              /\ \A i \in 1..n : got(i) = "'complete'" => (i = n /\ returned("True"))
              /\ returned("True") => (n > 0 /\ got(n) = "'complete'")
              /\ (pl.at = "done" /\ pl.ret.kind = "return") => pl.ret.val \in {"True", "False"}

\* wait_for_expression returned the remote object of its third evaluation, after
\* one that raised and one that gave 0
C19_Witness ==
    /\ pl.fn = "wait_for_expression" /\ pl.at = "done" /\ Len(pl.log) = 3
    /\ pl.log[1].kind = "RuntimeError"
    /\ pl.log[2] = [kind |-> "return", val |-> "0"]
    /\ pl.ret = [kind |-> "return", val |-> "{'type': 'undefined'}"]

(***************************************************************************)
(* C20.  capture_screenshot with an explicit clip sends the capture with   *)
(* that clip and nothing else.  Without a clip and with full_page it first *)
(* asks for the layout metrics, and the capture carries a clip at (0, 0);  *)
(* when the metrics query fails the capture is still sent, without a clip, *)
(* and the failure is not raised.  Without clip and full_page it sends one *)
(* capture without a clip.  A capture that is answered gives its data, or  *)
(* None.                                                                   *)
(***************************************************************************)
C20_ScreenshotCommands ==
    LET Capture(clip) == [method |-> "Page.captureScreenshot", clip |-> clip]
        query == [method |-> "Page.getLayoutMetrics", clip |-> NoClip]
    IN  sh.at = "done" =>
          /\ sh.clip.given = "dict" => sh.sent = <<Capture(sh.clip)>>
          /\ (sh.clip.given # "dict" /\ ~sh.full_page) => sh.sent = <<Capture(NoClip)>>
          /\ (sh.clip.given # "dict" /\ sh.full_page) =>
                /\ Len(sh.sent) = 2
                /\ sh.sent[1] = query
                /\ (sh.metrics.shape = "content" /\ sh.metrics.has_width
                      /\ sh.metrics.has_height) =>
                      sh.sent[2] = Capture(Clip(0, 0, sh.metrics.width,
                                                sh.metrics.height))
                /\ sh.metrics.kind # "return" => sh.sent[2] = Capture(NoClip)
          /\ sh.ret.kind = "return" => sh.ret.val \in {"'iVBORw0KGgo='", "None"}

(***************************************************************************)
(* C21.  Every evaluate() ends as its one Runtime.evaluate command ended:  *)
(* it returns the value of the remote object whenever there is one, also   *)
(* a falsy one; it returns the remote description only when the remote     *)
(* object has no value; it raises the protocol error of the command.  An   *)
(* evaluate() called by itself sends that one command and nothing else.    *)
(***************************************************************************)
C21_EvaluateByValue ==
    pl.log # << >> =>
        LET e == pl.log[Len(pl.log)]
        IN  /\ (pl.last.kind = "return" /\ pl.last.shape = "value") =>
                  e = [kind |-> "return", val |-> pl.last.value]
            /\ (pl.last.kind = "return" /\ pl.last.shape = "novalue") =>
                  e = [kind |-> "return", val |-> "{'type': 'undefined'}"]
            /\ pl.last.kind = "RuntimeError" => e = [kind |-> "RuntimeError", val |-> ""]
            /\ pl.fn = "evaluate" => (Len(pl.log) = 1 /\ pl.at = "done" /\ pl.ret = e)

\* evaluate() returned the 0 its command was answered with
C21_Witness ==
    /\ pl.fn = "evaluate" /\ pl.at = "done"
    /\ pl.last = [kind |-> "return", shape |-> "value", value |-> "0"]
    /\ pl.ret = [kind |-> "return", val |-> "0"]

(***************************************************************************)
(* C22.  The receive loop is suspended only in the read of the next frame: *)
(* whenever a response frame has arrived on a connection whose loop has    *)
(* not ended, the loop is at the websocket and can deliver it; it is never *)
(* suspended in a handler.                                                 *)
(***************************************************************************)
C22_LoopOnlyAwaitsFrames ==
    \A g \in 1..nconn : (inbox[g] # {} /\ reader[g] # "done") => reader[g] = "running"

(***************************************************************************)
(* C23.  A send() awaited inside an event handler completes once the       *)
(* browser has answered: there is no state in which the receive loop is    *)
(* suspended in a handler while the response that handler's send() awaits, *)
(* or the response awaited by the holder of the send lock that the         *)
(* handler's send() waits for, has arrived and lies unread behind the loop.*)
(***************************************************************************)
\* task t awaits a response that has arrived on connection g and is not read
AnswerUnread(t, g) ==
    /\ pc[t] = "await"
    /\ future[cur[t]].st = "pending"
    /\ \E frame \in inbox[g] : frame.id = cur[t]

C23_HandlerSendCompletes ==
    \A g \in 1..nconn :
        (reader[g] = "handling" /\ hd.conn = g /\ hd.task # 0) =>
            /\ ~AnswerUnread(hd.task, g)
            /\ ~(pc[hd.task] = "lock" /\ lock \notin {0, hd.task}
                   /\ AnswerUnread(lock, g))

(***************************************************************************)
(* C24.  No command goes out on a channel whose three enable commands have *)
(* not all succeeded: when a send() ends in an enable command that was     *)
(* answered with an error or was cancelled, the client is left without a   *)
(* usable session, so that the next send() connects and enables again      *)
(* instead of sending its command at once.                                 *)
(***************************************************************************)
C24_NoCommandOnHalfEnabledChannel ==
    (/\ did.op = "return"
     /\ did.method \in {EnableMethods[i] : i \in 1..Len(EnableMethods)}
     /\ did.outcome.kind # "return") => ~Connected

(***************************************************************************)
(* C25.  A connect opens the channel, starts its receive loop and sends    *)
(* Page.enable on it; Runtime.enable, Network.enable and then the command  *)
(* of the call are each sent, on that channel, by the same call, only      *)
(* after the frame before was answered with a result.  A send on an open   *)
(* channel sends its command and opens nothing.  At most one call is       *)
(* connecting or enabling at any time.                                     *)
(***************************************************************************)
\* task t puts a frame on the wire in this step
Transmits(t) == pc'[t] = "await" /\ (pc[t] # "await" \/ cur'[t] # cur[t])

\* the frame task t awaits was answered with a result, and t sends the next one
\* on the channel it opened
NextInTurn(t, before) ==
    /\ pc[t] = "await" /\ phase[t] = before
    /\ future[cur[t]].st = "result"
    /\ session' = session /\ session = nconn /\ nconn' = nconn /\ reader' = reader
    /\ [id |-> cur'[t], conn |-> session] \in unanswered'

C25_ConnectSequence ==
    [][/\ \A t \in Tasks : Transmits(t) =>
             /\ phase'[t] = EnableMethods[1] =>
                   /\ pc[t] = "connecting"
                   /\ nconn' = nconn + 1 /\ session' = nconn'
                   /\ reader'[nconn'] = "running" /\ ws'[nconn'] = "open"
                   /\ [id |-> cur'[t], conn |-> nconn'] \in unanswered'
             /\ phase'[t] = EnableMethods[2] => NextInTurn(t, EnableMethods[1])
             /\ phase'[t] = EnableMethods[3] => NextInTurn(t, EnableMethods[2])
             /\ phase'[t] = Command =>
                   \/ NextInTurn(t, EnableMethods[3])
                   \/ /\ pc[t] = "lock" /\ Connected
                      /\ UNCHANGED <<session, nconn, reader>>
       /\ nconn' # nconn => \E t \in Tasks : Transmits(t) \/ did'.op = "return"
       /\ Cardinality({t \in Tasks :
                          \/ pc[t] \in {"resolving", "connecting"}
                          \/ pc[t] = "await" /\ phase[t] # Command}) <= 1]_vars

\* the command of a call that had to connect again is on the wire of the second channel
C25_Witness ==
    \E t \in Tasks :
        /\ pc[t] = "await" /\ phase[t] = Command
        /\ session = 2 /\ [id |-> cur[t], conn |-> 2] \in unanswered
        /\ reader[2] = "running"

(***************************************************************************)
(* C26.  With several lifecycle scopes open on one supervisor, the         *)
(* shutdown() called by the exit of one scope never stops a browser        *)
(* process while another scope is inside its workload.                     *)
(***************************************************************************)
C26_ScopeExitSparesOtherScopes ==
    [][\A t \in GuardTasks :
          (sd.at = "stopping" /\ sd.scope = t /\ sd'.at = "idle"
             /\ running' # running) =>
              \A u \in GuardTasks \ {t} : lc[u].at # "inside"]_vars

(***************************************************************************)
(* C27.  No browser process is spawned while the handle refers to a        *)
(* process that is still running: _launch never overwrites a live handle,  *)
(* in particular not in the ensure() that follows an ensure() which failed *)
(* on the startup deadline.                                                *)
(***************************************************************************)
C27_NoSpawnOverLiveHandle ==
    [][spawned' # spawned => ~(proc # 0 /\ proc \in running)]_vars

(***************************************************************************)
(* C28.  When the receive loop of a connection terminates, its cleanup     *)
(* removes from the pending table no request that was sent on a later      *)
(* connection of the client.                                               *)
(***************************************************************************)
C28_CleanupSparesLaterConnection ==
    [][\A g \in 1..nconn :
          (reader[g] = "running" /\ reader'[g] = "done") =>
              \A u \in unanswered :
                  (u.conn > g /\ u.id \in pending_requests) =>
                      u.id \in pending_requests']_vars

(***************************************************************************)
(* C29.  When drag_mouse has returned or raised, every mousePressed it     *)
(* dispatched is followed by a mouseReleased: a failed dispatch does not   *)
(* leave the button pressed.                                               *)
(***************************************************************************)
C29_PressedIsReleased ==
    dr.at = "done" =>
        \A i \in 1..Len(dr.events) :
            dr.events[i].type = "mousePressed" =>
                \E j \in (i + 1)..Len(dr.events) :
                    dr.events[j].type = "mouseReleased"

(***************************************************************************)
(* C30.  A response frame whose id the pending table does not hold fulfils *)
(* no slot, leaves the pending table as it is and invokes no event         *)
(* handler; and a slot that was fulfilled or cancelled is never given      *)
(* another outcome.                                                        *)
(***************************************************************************)
C30_UnmatchedFrameIsIgnored ==
    [][/\ \A g \in 1..nconn : \A frame \in inbox[g] \ inbox'[g] :
             frame.id \notin pending_requests =>
                 /\ pending_requests' = pending_requests
                 /\ future' = future
                 /\ edid' = EvQuiet /\ hd' = hd
       /\ \A n \in DOMAIN future \cap DOMAIN future' :
             future[n].st # "pending" => future'[n] = future[n]]_vars

\* the loop has just read a frame for an id the table did not hold, while a
\* request was pending and a handler was registered
C30_Witness ==
    /\ fr.id # 0 /\ ~fr.known
    /\ \E n \in pending_requests : future[n].st = "pending"
    /\ \E e \in Events : Len(event_handlers[e]) > 0

(***************************************************************************)
(* C31.  Whenever no send call is in progress on the client, the pending   *)
(* table is empty: no entry outlives the send call that inserted it.       *)
(***************************************************************************)
C31_NoEntryOutlivesItsSend ==
    (\A t \in Tasks : pc[t] = "idle") => pending_requests = {}

(***************************************************************************)
(* C32.  A command answered with an error frame does not stop response     *)
(* delivery: the receive loop keeps running after every response frame it  *)
(* reads, and once it has delivered a failure to one caller, a response    *)
(* frame it reads for the id another caller awaits is delivered to that    *)
(* caller's slot.                                                          *)
(***************************************************************************)
C32_FailureDoesNotStopDelivery ==
    [][\A g \in 1..nconn : \A frame \in inbox[g] \ inbox'[g] :
          /\ reader'[g] = "running"
          /\ \A t \in Tasks :
                (/\ fr.failed
                 /\ pc[t] = "await" /\ cur[t] = frame.id
                 /\ frame.id \in pending_requests
                 /\ future[frame.id].st = "pending") =>
                    /\ frame.id \in DOMAIN future'
                    /\ future'[frame.id] = Delivered(frame)
                    /\ frame.id \notin pending_requests']_vars

\* the loop, having delivered a failure before, has just delivered a result to
\* the caller that awaits a later id
C32_Witness ==
    /\ fr.failed /\ fr.known
    /\ \E t \in Tasks :
          /\ pc[t] = "await" /\ cur[t] = fr.id
          /\ future[fr.id].st = "result"
    /\ reader[session] = "running"

(***************************************************************************)
(* C33.  When the list request succeeds and the listing holds a page-type  *)
(* entry with a channel address whose URL satisfies the reuse policy,      *)
(* resolution returns the first such entry in listing order, tagged        *)
(* "existing", having issued no create request; and an entry that is not   *)
(* page-type or has no channel address is never returned.                  *)
(***************************************************************************)
Reusable(entry) ==
    /\ entry.type = "page" /\ entry.webSocketDebuggerUrl # ""
    /\ CanReuseTarget(DeriveHost(InitialUrl), entry.url)

C33_FirstReusableEntryIsReturned ==
    rs_out.set =>
        LET listing == rs_in.listing
            res == rs_out.res
        IN  /\ (rs_in.list = 200 /\ \E i \in DOMAIN listing : Reusable(listing[i])) =>
                  /\ res.ok /\ res.target_id = "existing"
                  /\ res.requests = <<"LIST">>
                  /\ \E i \in DOMAIN listing :
                        /\ Reusable(listing[i])
                        /\ \A j \in 1..(i - 1) : ~Reusable(listing[j])
                        /\ res.ws = listing[i].webSocketDebuggerUrl
            /\ (res.ok /\ res.ws # CreatedWs) =>
                  \E i \in DOMAIN listing :
                      /\ listing[i].type = "page"
                      /\ listing[i].webSocketDebuggerUrl # ""
                      /\ res.ws = listing[i].webSocketDebuggerUrl

\* two reusable entries are listed, the first one is returned without a create request
C33_Witness ==
    /\ rs_out.set
    /\ Len(rs_in.listing) = 2
    /\ Reusable(rs_in.listing[1]) /\ Reusable(rs_in.listing[2])
    /\ rs_out.res.ws = EntryWs[1] /\ rs_out.res.requests = <<"LIST">>

(***************************************************************************)
(* C34.  When the list request succeeds and no listed entry is reusable,   *)
(* resolution issues one GET create request; it issues a POST create       *)
(* request, one, only after the GET was answered with method-not-allowed;  *)
(* and a create request answered with success makes resolution return the  *)
(* channel address and the id of the new target.                           *)
(***************************************************************************)
NothingReusable ==
    /\ rs_out.set /\ rs_in.list = 200
    /\ \A i \in DOMAIN rs_in.listing : ~Reusable(rs_in.listing[i])

C34_GetThenPostOn405 ==
    NothingReusable =>
        LET res == rs_out.res
            posted == rs_in.get = MethodNotAllowed
            last == IF posted THEN rs_in.post ELSE rs_in.get
        IN  /\ res.requests = IF posted THEN <<"LIST", "GET", "POST">>
                                        ELSE <<"LIST", "GET">>
            /\ (last # 0 /\ ~IsErrorStatus(last)) =>
                  /\ res.ok
                  /\ res.ws = CreatedWs /\ res.target_id = CreatedId

\* the GET was answered with 405, the POST created the target
C34_Witness ==
    /\ NothingReusable
    /\ rs_in.get = MethodNotAllowed /\ rs_in.post = 200
    /\ rs_out.res.ok /\ rs_out.res.target_id = CreatedId
    /\ rs_out.res.requests = <<"LIST", "GET", "POST">>

(***************************************************************************)
(* C35.  When creation is rejected and the listing held no fallback        *)
(* candidate, resolution fails; and a send whose resolution fails raises   *)
(* to its caller, opens no channel, starts no receive loop and leaves the  *)
(* client's session, target id and reuse flag as they were.                *)
(***************************************************************************)
RejectedWithoutFallback(sc) ==
    /\ sc.list = 200
    /\ \A i \in DOMAIN sc.listing :
          ~(sc.listing[i].type = "page" /\ sc.listing[i].webSocketDebuggerUrl # "")
    /\ IsErrorStatus(IF sc.get = MethodNotAllowed THEN sc.post ELSE sc.get)

RejectedWithoutFallbackFails ==
    \A sc \in ConnectScenarios :
        RejectedWithoutFallback(sc) =>
            LET r == CreateTarget(DeriveHost(InitialUrl), sc.listing, sc.list,
                                  sc.get, sc.post)
            IN  ~r.ok /\ r.error = "RuntimeError" /\ r \in ResolveOutcomes

C35_FailedResolutionOpensNothing ==
    [][/\ RejectedWithoutFallbackFails
       /\ \A t \in Tasks :
             (pc[t] = "resolving" /\ pc'[t] \notin {"resolving", "connecting"}) =>
                 /\ did'.op = "return" /\ did'.task = t
                 /\ did'.outcome.kind \in {"RuntimeError", "HTTPStatusError"}
                 /\ pc'[t] = "idle"
                 /\ UNCHANGED <<session, nconn, ws, reader, inbox, msg_id,
                                target_id, reused_existing, pending_requests>>]_vars

\* a client that had a target and lost its channel has just failed to resolve
\* one again: the send raised, the old target id is still there
C35_Witness ==
    /\ did.op = "return" /\ did.id = 0
    /\ did.outcome.kind = "RuntimeError"
    /\ target_id # NoTarget /\ nconn = 1 /\ ws[1] = "closed"
    /\ \E sc \in ConnectScenarios : RejectedWithoutFallback(sc)

(***************************************************************************)
(* C36.  Whenever the create request ends with an HTTP error status, of    *)
(* whatever value, and the listing held a fallback candidate, resolution   *)
(* returns the fallback candidate instead of failing.                      *)
(***************************************************************************)
C36_FallbackOnAnyRejection ==
    (/\ NothingReusable
     /\ IsErrorStatus(IF rs_in.get = MethodNotAllowed THEN rs_in.post ELSE rs_in.get)
     /\ HasPageWithAddress(rs_in.listing)) =>
        /\ rs_out.res.ok
        /\ rs_out.res.ws =
              rs_in.listing[FirstPageWithAddress(rs_in.listing)].webSocketDebuggerUrl

(***************************************************************************)
(* C37.  A list request that fails, by an error status or in transport,    *)
(* makes resolution fail after that one request: it is not repeated and no *)
(* create request follows.  The send whose resolution failed so raises to  *)
(* its caller, puts nothing on the wire and leaves the client unconnected. *)
(* And no send call puts a frame of the same kind on the wire twice.       *)
(***************************************************************************)
ListFailures ==
    [listing : {l \in Listings : Len(l) <= 1}, list : {0, 500},
     get : HttpStatuses, post : HttpStatuses]

ListFailureSurfaces ==
    \A sc \in ListFailures :
        LET r == CreateTarget(DeriveHost(InitialUrl), sc.listing, sc.list,
                              sc.get, sc.post)
        IN  /\ ~r.ok
            /\ r.requests = <<"LIST">>
            /\ r.error = IF sc.list = 0 THEN "TransportError" ELSE "HTTPStatusError"

C37_ListFailureNotRetried ==
    [][/\ ListFailureSurfaces
       /\ \A t \in Tasks :
             /\ (/\ pc[t] = "resolving"
                 /\ did'.op = "return" /\ did'.task = t
                 /\ did'.outcome.kind = "HTTPStatusError") =>
                    /\ ~Connected /\ ~Connected'
                    /\ pc'[t] = "idle"
                    /\ UNCHANGED <<msg_id, nconn, session, unanswered, reader>>
             /\ Transmits(t) => phase'[t] # phase[t]]_vars

\* the first send of a client has just failed on the list request
C37_Witness ==
    /\ did.op = "return" /\ did.id = 0
    /\ did.outcome.kind = "HTTPStatusError"
    /\ msg_id = 0 /\ nconn = 0 /\ session = 0
    /\ \A t \in Tasks : pc[t] # "await"

(***************************************************************************)
(* C38.  shutdown() with a handle first asks the process to terminate and  *)
(* waits; a kill is sent only after the terminate failed or the wait timed *)
(* out, never when the process exited within the wait; shutdown() without  *)
(* a handle sends neither signal.                                          *)
(***************************************************************************)
Sent(signal) == \E i \in DOMAIN gdid'.signals : gdid'.signals[i] = signal

C38_KillOnlyAfterTerminate ==
    [][/\ (sd.at = "idle" /\ gdid'.signals # << >>) =>
             /\ proc # 0
             /\ gdid'.signals[1] = "terminate"
             /\ Sent("kill") => (proc \notin running /\ sd'.at = "idle")
             /\ ~Sent("kill") => (sd'.at = "stopping" /\ sd'.of = proc)
       /\ (sd.at = "stopping" /\ sd'.at = "idle") =>
             /\ gdid'.wait \in WaitOutcomes
             /\ Sent("kill") <=> gdid'.wait = "timeout"
             /\ ~Sent("terminate")
       /\ (gdid'.op = "shutdown" /\ sd.at = "idle" /\ proc = 0) =>
             /\ gdid'.signals = << >>
             /\ UNCHANGED <<proc, running, sd, started_here>>
       /\ (sd.at = sd'.at /\ gdid'.op # "shutdown") => gdid'.signals = << >>]_vars

\* the graceful wait of a shutdown has timed out and the kill was sent
C38_Witness ==
    /\ gdid.op = "shutdown" /\ gdid.wait = "timeout"
    /\ gdid.signals = <<"kill">>
    /\ proc = 0 /\ sd.at = "idle"

(***************************************************************************)
(* C39.  Under concurrent use the comments a collection workflow gives to  *)
(* a note are all from that workflow: comments gathered by one workflow    *)
(* are never merged into the result of another.                            *)
(***************************************************************************)
C39_NoCrossWorkflowComments ==
    \A w \in Workflows : \A i \in DOMAIN wk[w].comments :
        wk[w].comments[i].wf = w

(***************************************************************************)
(* C40.  The handlers registered for one note are disposed when that note  *)
(* is done: an event frame that arrives while a later note of the same     *)
(* client is collected is processed only by the handlers registered for    *)
(* that later note.                                                        *)
(***************************************************************************)
C40_OnlyHandlersOfCurrentNote ==
    \A w \in Workflows : \A i \in DOMAIN wk[w].ran :
        wk[w].ran[i] = wk[w].note

=============================================================================
